---- MODULE Spec2Model ----
(***************************************************************************)
(* Release-Relay: the text-transformation pipeline.                        *)
(*   - Classifier            src/src/categorizer.ts                        *)
(*   - IssueRefExtractor     extractIssueNumber (GitHub fetch module)      *)
(*   - BlockParser           scripts/post-to-notion.sh                     *)
(*   - InlineRunTokenizer    scripts/post-to-notion.sh (parse_rich_text)   *)
(* Strings are sequences of one-character strings, so that substring       *)
(* search, regular-expression matching, lower-casing and literal decoding  *)
(* are computed character by character, as the code computes them.         *)
(***************************************************************************)
EXTENDS Integers, Sequences, FiniteSets, TLC

VARIABLES
  pr, category,                 \* categorizePR: the argument and the returned bucket
  prs, idx, result, catPc,      \* categorizePRs: the argument, the loop position, the buckets
  prTitle, issue, issuePc,      \* extractIssueNumber: the argument and the returned value
  inlineText, rich_text, spans, inlinePc,
                                \* parse_rich_text: the argument, the returned rich_text
                                \* array, the regular-expression matches of the loop
  consumed,                     \* convert_markdown_to_notion_blocks: the lines read so far
  in_code_block, code_block_content, code_block_language, blocks,
                                \* its local variables
  blockPc,                      \* "reading" inside the while loop, "done" after it
  summaryPrs, categorized,      \* computeSummary: the arguments
  stats, statsPc,               \* computeSummary: the returned statistics
  contribPrs, counts, contribIdx, contributors, contribPc,
                                \* buildContributorList: the argument, the Map, the
                                \* loop position, the returned array
  renderStats, summaryText, renderPc,
                                \* renderSummaryText: the argument and the returned text
  fmtN, formatted, fmtPc,       \* formatNumber: the argument and the returned string
  notesPrs, generatedAt, notes, notesPc,
                                \* generateReleaseNotes: the pull requests, the clock
                                \* reading, the returned document
  CONTENT, linesRead, converting, MARKDOWN_BLOCKS, children, payloadPc,
                                \* post-to-notion.sh main logic: the markdown lines, the
                                \* converted blocks, the children of JSON_PAYLOAD
  splitContent, maxLength, splitLines, currentChunk, chunks, splitPc,
                                \* splitMessage: the arguments, the lines still to
                                \* visit, the local variables
  cliOpts, cliEnv,              \* main: the options and the environment variables
  cliPc, exitCode,              \* main: the position in main, the exit code
  requests,                     \* main: the external calls started so far
  cliPrs, markdown, outputFile, \* main: the fetched list, the document, the file
  cliLog,                       \* main: what the logger was given
  listing,                      \* GitHub: the closed pull requests as the API lists them
  fetchArgs,                    \* fetchMergedPRs: from, to, includeLabels, excludeLabels
  page, hasMore, pulls, pullIdx,
                                \* fetchMergedPRs: the page number, the loop flag, the
                                \* page received, the position of the for loop in it
  detail, merged,               \* fetchMergedPRs: the detail awaited last, the result
  calls,                        \* the API requests made so far and how they ended
  visited,                      \* the numbers of the list entries the for loop took
  fetchNotes,                   \* main: the document generated from the fetched list
  fetchPc,                      \* the position in fetchMergedPRs and in main after it
  pubContent, webhookUrl,       \* publishToSlack, publishToDiscord: the arguments
  mrkdwn,                       \* publishToSlack: the converted content
  chunkIdx,                     \* publishToDiscord: the chunks the for loop has finished
  wire,                         \* the requests sent to the webhook and their outcomes
  pubLog, pubPc                 \* what the logger was given, the position in the function

catVars == <<pr, category, prs, idx, result, catPc>>
issueVars == <<prTitle, issue, issuePc>>
inlineVars == <<inlineText, rich_text, spans, inlinePc>>
blockVars == <<consumed, in_code_block, code_block_content, code_block_language,
               blocks, blockPc>>
summaryVars == <<summaryPrs, categorized, stats, statsPc>>
contribVars == <<contribPrs, counts, contribIdx, contributors, contribPc>>
renderVars == <<renderStats, summaryText, renderPc>>
fmtVars == <<fmtN, formatted, fmtPc>>
notesVars == <<notesPrs, generatedAt, notes, notesPc>>
payloadVars == <<CONTENT, linesRead, converting, MARKDOWN_BLOCKS, children, payloadPc>>
splitVars == <<splitContent, maxLength, splitLines, currentChunk, chunks, splitPc>>
cliVars == <<cliOpts, cliEnv, cliPc, exitCode, requests, cliPrs, markdown,
             outputFile, cliLog>>
fetchVars == <<listing, fetchArgs, page, hasMore, pulls, pullIdx, detail, merged,
               calls, visited, fetchNotes, fetchPc>>
pubVars == <<pubContent, webhookUrl, mrkdwn, chunkIdx, wire, pubLog, pubPc>>
mainVars == <<cliVars, fetchVars, pubVars>>
reportVars == <<mainVars, summaryVars, contribVars, renderVars, fmtVars, notesVars,
                payloadVars, splitVars>>
vars == <<catVars, issueVars, inlineVars, blockVars, reportVars>>

\* the variables of the other components, which a component leaves alone
notCat == <<issueVars, inlineVars, blockVars, reportVars>>
notIssue == <<catVars, inlineVars, blockVars, reportVars>>
notInline == <<catVars, issueVars, blockVars, reportVars>>
notBlock == <<catVars, issueVars, inlineVars, reportVars>>
parserVars == <<catVars, issueVars, inlineVars, blockVars>>
publishVars == <<payloadVars, splitVars, mainVars>>
notSummary == <<parserVars, contribVars, renderVars, fmtVars, notesVars, publishVars>>
notContrib == <<parserVars, summaryVars, renderVars, fmtVars, notesVars, publishVars>>
notRender == <<parserVars, summaryVars, contribVars, fmtVars, notesVars, publishVars>>
notFmt == <<parserVars, summaryVars, contribVars, renderVars, notesVars, publishVars>>
notNotes == <<parserVars, summaryVars, contribVars, renderVars, fmtVars, publishVars>>
composeVars == <<summaryVars, contribVars, renderVars, fmtVars, notesVars>>
notPayload == <<parserVars, composeVars, splitVars, mainVars>>
notSplit == <<parserVars, composeVars, payloadVars, mainVars>>
notCli == <<parserVars, composeVars, payloadVars, splitVars, fetchVars, pubVars>>
notFetch == <<parserVars, composeVars, payloadVars, splitVars, cliVars, pubVars>>
notPubSplit == <<parserVars, composeVars, payloadVars, cliVars, fetchVars>>
notPub == <<notPubSplit, splitVars>>

(***************************************************************************)
(* Generic helpers on sequences                                            *)
(***************************************************************************)
Range(s) == {s[k] : k \in 1..Len(s)}

SeqsUpTo(S, n) == UNION {[1..k -> S] : k \in 0..n}

\* s occurs in t starting at index p (1-based)
MatchAt(t, p, s) ==
  /\ p >= 1
  /\ p + Len(s) - 1 <= Len(t)
  /\ \A k \in 1..Len(s) : t[p + k - 1] = s[k]

\* String.prototype.includes
Includes(t, s) == \E p \in 1..(Len(t) + 1) : MatchAt(t, p, s)

UpperChars == <<"A","B","C","D","E","F","G","H","I","J","K","L","M",
                "N","O","P","Q","R","S","T","U","V","W","X","Y","Z">>
LowerChars == <<"a","b","c","d","e","f","g","h","i","j","k","l","m",
                "n","o","p","q","r","s","t","u","v","w","x","y","z">>

ToLowerChar(c) ==
  IF \E k \in 1..26 : UpperChars[k] = c
  THEN LowerChars[CHOOSE k \in 1..26 : UpperChars[k] = c]
  ELSE c

\* String.prototype.toLowerCase
toLowerCase(s) == [k \in 1..Len(s) |-> ToLowerChar(s[k])]

\* the character at index k, the empty string outside the string
At(t, k) == IF k \in 1..Len(t) THEN t[k] ELSE ""

\* the number of consecutive characters of class C that start at index p
RunLen(t, p, C) ==
  CHOOSE n \in 0..Len(t) :
    /\ \A k \in 0..(n - 1) : At(t, p + k) \in C
    /\ At(t, p + n) \notin C

RECURSIVE Concat(_)
Concat(ss) == IF ss = <<>> THEN <<>> ELSE Head(ss) \o Concat(Tail(ss))

Digits == {"0","1","2","3","4","5","6","7","8","9"}
LowerAZ == {LowerChars[k] : k \in 1..26}
Alpha == LowerAZ \cup {UpperChars[k] : k \in 1..26}
\* the white space (\s) that occurs in the inputs
WhiteSpace == {" ", "\t"}

DigitValue(c) ==
  CASE c = "0" -> 0 [] c = "1" -> 1 [] c = "2" -> 2 [] c = "3" -> 3 [] c = "4" -> 4
    [] c = "5" -> 5 [] c = "6" -> 6 [] c = "7" -> 7 [] c = "8" -> 8 [] c = "9" -> 9

\* parseInt(ds, 10) of a non-empty string of decimal digits
RECURSIVE parseInt(_)
parseInt(ds) ==
  IF ds = <<>> THEN 0
  ELSE 10 * parseInt(SubSeq(ds, 1, Len(ds) - 1)) + DigitValue(ds[Len(ds)])

IssueIdle == prTitle = <<>> /\ issue = <<>> /\ issuePc = "idle"

InlineIdle == inlineText = <<>> /\ rich_text = <<>> /\ spans = <<>> /\ inlinePc = "idle"

BlockIdle ==
  /\ consumed = <<>> /\ in_code_block = FALSE /\ code_block_content = <<>>
  /\ code_block_language = <<>> /\ blocks = <<>> /\ blockPc = "idle"

SummaryIdle ==
  summaryPrs = <<>> /\ categorized = <<>> /\ stats = <<>> /\ statsPc = "idle"

ContribIdle ==
  /\ contribPrs = <<>> /\ counts = <<>> /\ contribIdx = 0
  /\ contributors = <<>> /\ contribPc = "idle"

RenderIdle == renderStats = <<>> /\ summaryText = <<>> /\ renderPc = "idle"

FmtIdle == fmtN = 0 /\ formatted = <<>> /\ fmtPc = "idle"

NotesIdle == notesPrs = <<>> /\ generatedAt = <<>> /\ notes = <<>> /\ notesPc = "idle"

PayloadIdle ==
  /\ CONTENT = <<>> /\ linesRead = 0 /\ converting = <<>>
  /\ MARKDOWN_BLOCKS = <<>> /\ children = <<>> /\ payloadPc = "idle"

SplitIdle ==
  /\ splitContent = <<>> /\ maxLength = 0 /\ splitLines = <<>> /\ currentChunk = <<>>
  /\ chunks = <<>> /\ splitPc = "idle"

CliIdle ==
  /\ cliOpts = <<>> /\ cliEnv = <<>> /\ cliPc = "idle" /\ exitCode = <<>>
  /\ requests = <<>> /\ cliPrs = <<>> /\ markdown = <<>> /\ outputFile = <<>>
  /\ cliLog = <<>>

FetchIdle ==
  /\ listing = <<>> /\ fetchArgs = <<>> /\ page = 0 /\ hasMore = FALSE
  /\ pulls = <<>> /\ pullIdx = 0 /\ detail = <<>> /\ merged = <<>>
  /\ calls = <<>> /\ visited = <<>> /\ fetchNotes = <<>> /\ fetchPc = "idle"

PubIdle ==
  /\ pubContent = <<>> /\ webhookUrl = <<>> /\ mrkdwn = <<>> /\ chunkIdx = 0
  /\ wire = <<>> /\ pubLog = <<>> /\ pubPc = "idle"

MainIdle == CliIdle /\ FetchIdle /\ PubIdle

PublishIdle == PayloadIdle /\ SplitIdle /\ MainIdle

ReportIdle ==
  SummaryIdle /\ ContribIdle /\ RenderIdle /\ FmtIdle /\ NotesIdle /\ PublishIdle

(***************************************************************************)
(* Classifier: src/src/categorizer.ts                                      *)
(***************************************************************************)
FEATURE_LABELS == << <<"f","e","a","t","u","r","e">>,
                     <<"e","n","h","a","n","c","e","m","e","n","t">> >>
BUG_LABELS == << <<"b","u","g">>, <<"f","i","x">>,
                 <<"b","u","g","f","i","x">>, <<"h","o","t","f","i","x">> >>
SECURITY_LABELS == << <<"s","e","c","u","r","i","t","y">>,
                      <<"v","u","l","n","e","r","a","b","i","l","i","t","y">>,
                      <<"c","v","e">> >>
REFACTOR_LABELS == << <<"r","e","f","a","c","t","o","r">>, <<"c","h","o","r","e">>,
                      <<"m","a","i","n","t","e","n","a","n","c","e">>,
                      <<"i","n","f","r","a">>, <<"c","i">>, <<"d","o","c","s">> >>

FEATURE_KEYWORDS == << <<"f","e","a","t">>, <<"f","e","a","t","u","r","e">>,
                       <<"a","d","d">>, <<"n","e","w">> >>
BUG_KEYWORDS == << <<"f","i","x">>, <<"b","u","g">>, <<"p","a","t","c","h">>,
                   <<"h","o","t","f","i","x">> >>
SECURITY_KEYWORDS == << <<"s","e","c","u","r","i","t","y">>, <<"c","v","e">>,
                        <<"v","u","l","n","e","r","a","b","i","l","i","t","y">> >>
REFACTOR_KEYWORDS == << <<"r","e","f","a","c","t","o","r">>, <<"c","h","o","r","e">>,
                        <<"c","l","e","a","n","u","p">>,
                        <<"c","l","e","a","n"," ","u","p">>,
                        <<"i","n","f","r","a">>, <<"c","i">>, <<"d","o","c","s">> >>

CategoryKeys == {"features", "bugFixes", "security", "refactoring", "other"}

\* (defect variant: the labels are compared without lower-casing)
loweredCaseKept(labels) == labels

\* labels.map((l) => l.toLowerCase())
lowered(labels) == [k \in 1..Len(labels) |-> toLowerCase(labels[k])]

\* values.some((v) => targets.includes(v))
matchesAny(values, targets) ==
  \E v \in 1..Len(values) : \E t \in 1..Len(targets) : targets[t] = values[v]

\* keywords.some((kw) => title.toLowerCase().includes(kw))
titleContains(title, keywords) ==
  LET lower == toLowerCase(title)
  IN  \E k \in 1..Len(keywords) : Includes(lower, keywords[k])

\* (defect variant: the bug keywords are tried before the security keywords)
categorizePRBugFirst(p) ==
  LET labels == lowered(p.labels)
  IN  IF matchesAny(labels, FEATURE_LABELS) THEN "features"
      ELSE IF matchesAny(labels, BUG_LABELS) THEN "bugFixes"
      ELSE IF matchesAny(labels, SECURITY_LABELS) THEN "security"
      ELSE IF matchesAny(labels, REFACTOR_LABELS) THEN "refactoring"
      ELSE IF titleContains(p.title, FEATURE_KEYWORDS) THEN "features"
      ELSE IF titleContains(p.title, BUG_KEYWORDS) THEN "bugFixes"
      ELSE IF titleContains(p.title, SECURITY_KEYWORDS) THEN "security"
      ELSE IF titleContains(p.title, REFACTOR_KEYWORDS) THEN "refactoring"
      ELSE "other"

categorizePR(p) ==
  LET labels == lowered(p.labels)
  IN  IF matchesAny(labels, FEATURE_LABELS) THEN "features"
      ELSE IF matchesAny(labels, BUG_LABELS) THEN "bugFixes"
      ELSE IF matchesAny(labels, SECURITY_LABELS) THEN "security"
      ELSE IF matchesAny(labels, REFACTOR_LABELS) THEN "refactoring"
      ELSE IF titleContains(p.title, SECURITY_KEYWORDS) THEN "security"
      ELSE IF titleContains(p.title, FEATURE_KEYWORDS) THEN "features"
      ELSE IF titleContains(p.title, BUG_KEYWORDS) THEN "bugFixes"
      ELSE IF titleContains(p.title, REFACTOR_KEYWORDS) THEN "refactoring"
      ELSE "other"

\* ---- inputs of the classifier ----
MaxLabels == 2
MaxPRs == 3

LabelVocab ==
  { <<"F","e","a","t","u","r","e">>, <<"B","U","G">>, <<"C","V","E">>,
    <<"d","o","c","s">>, <<"H","o","t","f","i","x">>,
    <<"f","e","a","t","u","r","e","s">>, <<"w","o","n","t","f","i","x">> }

TitleSamples ==
  { <<"f","i","x",":"," ","s","o","m","e","t","h","i","n","g">>,
    <<"S","e","c","u","r","i","t","y"," ","p","a","t","c","h">>,
    <<"A","d","d"," ","C","V","E"," ","f","i","x">>,
    <<"C","l","e","a","n"," ","U","p">>,
    <<"u","p","d","a","t","e"," ","r","e","a","d","m","e">>,
    <<"A","d","d","r","e","s","s"," ","i","t">>,
    <<"s","p","e","c","i","a","l">>,
    <<"p","r","e","f","i","x">>,
    <<"b","u","m","p"," ","d","e","p","s">>,
    <<"N","e","w"," ","i","n","f","r","a">> }

NoPR == [number |-> 0, title |-> <<>>, labels |-> <<>>]

\* every PR a single call of categorizePR is tried on
PRInputs ==
  { [number |-> 1, title |-> t, labels |-> ls] :
      t \in TitleSamples, ls \in SeqsUpTo(LabelVocab, MaxLabels) }

\* the kinds of PR the lists given to categorizePRs are made of
PRKinds ==
  { [title |-> <<"f","i","x",":"," ","s","o","m","e","t","h","i","n","g">>,
     labels |-> << <<"F","e","a","t","u","r","e">> >>],
    [title |-> <<"f","i","x",":"," ","s","o","m","e","t","h","i","n","g">>,
     labels |-> <<>>],
    [title |-> <<"S","e","c","u","r","i","t","y"," ","p","a","t","c","h">>,
     labels |-> << <<"w","o","n","t","f","i","x">> >>],
    [title |-> <<"b","u","m","p"," ","d","e","p","s">>,
     labels |-> << <<"d","o","c","s">>, <<"B","U","G">> >>],
    [title |-> <<"s","p","e","c","i","a","l">>, labels |-> <<>>],
    [title |-> <<"b","u","m","p"," ","d","e","p","s">>, labels |-> <<>>] }

\* lists of PRs; the PR at position k carries the number k
PRLists ==
  { [k \in 1..Len(ks) |-> [number |-> k, title |-> ks[k].title, labels |-> ks[k].labels]] :
      ks \in SeqsUpTo(PRKinds, MaxPRs) }

EmptyBuckets ==
  [features |-> <<>>, bugFixes |-> <<>>, security |-> <<>>,
   refactoring |-> <<>>, other |-> <<>>]

CatIdle ==
  /\ pr = NoPR /\ category = "idle"
  /\ prs = <<>> /\ idx = 0 /\ result = EmptyBuckets /\ catPc = "idle"

\* ---- one call of categorizePR ----
PRInit ==
  /\ pr \in PRInputs /\ category = "pending"
  /\ prs = <<>> /\ idx = 0 /\ result = EmptyBuckets /\ catPc = "idle"
  /\ IssueIdle /\ InlineIdle /\ BlockIdle /\ ReportIdle

CategorizeOne ==
  /\ category = "pending"
  /\ category' = categorizePR(pr)
  /\ UNCHANGED <<pr, prs, idx, result, catPc, notCat>>

\* ---- one call of categorizePRs ----
CatInit ==
  /\ pr = NoPR /\ category = "idle"
  /\ prs \in PRLists /\ idx = 0 /\ result = EmptyBuckets /\ catPc = "loop"
  /\ IssueIdle /\ InlineIdle /\ BlockIdle /\ ReportIdle

\* (defect variant: the PR is put at the front of its bucket)
CategorizeNextUnshift ==
  /\ catPc = "loop"
  /\ idx < Len(prs)
  /\ LET p == prs[idx + 1]
         c == categorizePR(p)
     IN  result' = [result EXCEPT ![c] = <<p>> \o @]
  /\ idx' = idx + 1
  /\ UNCHANGED <<pr, category, prs, catPc, notCat>>

\* one iteration of `for (const pr of prs)`
CategorizeNext ==
  /\ catPc = "loop"
  /\ idx < Len(prs)
  /\ LET p == prs[idx + 1]
         c == categorizePR(p)
     IN  result' = [result EXCEPT ![c] = Append(@, p)]
  /\ idx' = idx + 1
  /\ UNCHANGED <<pr, category, prs, catPc, notCat>>

\* `return result`
CategorizeReturn ==
  /\ catPc = "loop"
  /\ idx = Len(prs)
  /\ catPc' = "done"
  /\ UNCHANGED <<pr, category, prs, idx, result, notCat>>

(***************************************************************************)
(* Classifier: properties                                                  *)
(***************************************************************************)
\* the places (bucket, position) at which the PR numbered n is stored
PlacesOf(n) ==
  { <<b, j>> \in CategoryKeys \X (1..MaxPRs + 1) :
      j <= Len(result[b]) /\ result[b][j].number = n }

\* C1: when categorizePRs returns, the five bucket lengths sum to the input
\* length, every input PR is stored at exactly one place of exactly one
\* bucket (so none is in two buckets or twice in one), the stored PR is the
\* input PR unchanged, and inside each bucket the PRs are in input order.
C1_BucketsPartitionInput ==
  catPc = "done" =>
    /\ Len(result.features) + Len(result.bugFixes) + Len(result.security)
         + Len(result.refactoring) + Len(result.other) = Len(prs)
    /\ \A k \in 1..Len(prs) :
         /\ Cardinality(PlacesOf(k)) = 1
         /\ \A pl \in PlacesOf(k) : result[pl[1]][pl[2]] = prs[k]
    /\ \A b \in CategoryKeys : \A j1, j2 \in 1..Len(result[b]) :
         j1 < j2 => result[b][j1].number < result[b][j2].number

\* a list of three PRs was split over two buckets, one of them holding two PRs
C1_Witness ==
  /\ catPc = "done"
  /\ Len(prs) = 3
  /\ Len(result.features) = 2
  /\ Len(result.other) = 1

\* the set of lower-cased labels of a PR
LabelSetOf(p) == {toLowerCase(l) : l \in Range(p.labels)}

\* the bucket of the first label set, in the order features, bugFixes,
\* security, refactoring, that shares a label with S ("none" if no set does)
FirstLabelBucket(S) ==
  IF S \cap Range(FEATURE_LABELS) # {} THEN "features"
  ELSE IF S \cap Range(BUG_LABELS) # {} THEN "bugFixes"
  ELSE IF S \cap Range(SECURITY_LABELS) # {} THEN "security"
  ELSE IF S \cap Range(REFACTOR_LABELS) # {} THEN "refactoring"
  ELSE "none"

\* C2: when a lower-cased label of the PR is in one of the four label sets,
\* categorizePR returns the bucket of the first set (features, bugFixes,
\* security, refactoring) that contains one of the PR's labels: a function
\* of the SET of lower-cased labels alone, whatever the order and letter
\* case of the labels and whatever the title.
C2_LabelMatchDecides ==
  (category \in CategoryKeys /\ FirstLabelBucket(LabelSetOf(pr)) # "none")
    => category = FirstLabelBucket(LabelSetOf(pr))

\* labels [CVE, BUG] (security label first, upper case) with a title holding
\* security keywords: the result is bugFixes
C2_Witness ==
  /\ category = "bugFixes"
  /\ pr.labels = << <<"C","V","E">>, <<"B","U","G">> >>
  /\ pr.title = <<"S","e","c","u","r","i","t","y"," ","p","a","t","c","h">>

\* some keyword of the list is a substring of the lower-cased title
HasKeyword(t, kws) == \E kw \in Range(kws) : Includes(toLowerCase(t), kw)

\* the bucket of the first keyword list, in the order security, features,
\* bugFixes, refactoring, with a keyword in the title; other if there is none
FirstKeywordBucket(t) ==
  IF HasKeyword(t, SECURITY_KEYWORDS) THEN "security"
  ELSE IF HasKeyword(t, FEATURE_KEYWORDS) THEN "features"
  ELSE IF HasKeyword(t, BUG_KEYWORDS) THEN "bugFixes"
  ELSE IF HasKeyword(t, REFACTOR_KEYWORDS) THEN "refactoring"
  ELSE "other"

NextPR == CategorizeOne
SpecPR == PRInit /\ [][NextPR]_vars

NextCat == CategorizeNext \/ CategorizeReturn
SpecCat == CatInit /\ [][NextCat]_vars

(***************************************************************************)
(* IssueRefExtractor: extractIssueNumber                                   *)
(* A match is the captured digit string; <<>> is "no match" (the capture   *)
(* group is \d+, never empty).  The result is <<n>> for the number n and   *)
(* <<>> for null.                                                          *)
(***************************************************************************)
\* (defect variant: the optional # inside the parentheses is not accepted)
conventionalMatchNoHash(t) ==
  LET w == RunLen(t, 1, LowerAZ)
      d == RunLen(t, w + 2, Digits)
  IN  IF /\ w >= 1
         /\ At(t, w + 1) = "("
         /\ d >= 1
         /\ At(t, w + 2 + d) = ")"
         /\ At(t, w + 3 + d) = ":"
      THEN SubSeq(t, w + 2, w + 1 + d)
      ELSE <<>>

\* title.match(/^[a-z]+\(#?(\d+)\):/)
conventionalMatch(t) ==
  LET w == RunLen(t, 1, LowerAZ)
      h == IF At(t, w + 2) = "#" THEN 1 ELSE 0
      d == RunLen(t, w + 2 + h, Digits)
  IN  IF /\ w >= 1
         /\ At(t, w + 1) = "("
         /\ d >= 1
         /\ At(t, w + 2 + h + d) = ")"
         /\ At(t, w + 3 + h + d) = ":"
      THEN SubSeq(t, w + 2 + h, w + 1 + h + d)
      ELSE <<>>

\* (defect variant: no white space is required after the digits)
hashMatchNoSpace(t) ==
  LET d == RunLen(t, 2, Digits)
  IN  IF At(t, 1) = "#" /\ d >= 1
      THEN SubSeq(t, 2, 1 + d)
      ELSE <<>>

\* title.match(/^#(\d+)\s+/)
hashMatch(t) ==
  LET d == RunLen(t, 2, Digits)
  IN  IF At(t, 1) = "#" /\ d >= 1 /\ RunLen(t, 2 + d, WhiteSpace) >= 1
      THEN SubSeq(t, 2, 1 + d)
      ELSE <<>>

\* title.match(/^(\d+)\s*[-:]\s*/)
separatorMatch(t) ==
  LET d == RunLen(t, 1, Digits)
      s == RunLen(t, 1 + d, WhiteSpace)
  IN  IF d >= 1 /\ At(t, 1 + d + s) \in {"-", ":"}
      THEN SubSeq(t, 1, d)
      ELSE <<>>

\* title.match(/^(\d+)\s+[a-zA-Z]/)
spaceMatch(t) ==
  LET d == RunLen(t, 1, Digits)
      s == RunLen(t, 1 + d, WhiteSpace)
  IN  IF d >= 1 /\ s >= 1 /\ At(t, 1 + d + s) \in Alpha
      THEN SubSeq(t, 1, d)
      ELSE <<>>

extractIssueNumber(t) ==
  IF conventionalMatch(t) # <<>> THEN <<parseInt(conventionalMatch(t))>>
  ELSE IF hashMatch(t) # <<>> THEN <<parseInt(hashMatch(t))>>
  ELSE IF separatorMatch(t) # <<>> THEN <<parseInt(separatorMatch(t))>>
  ELSE IF spaceMatch(t) # <<>> THEN <<parseInt(spaceMatch(t))>>
  ELSE <<>>

\* ---- inputs of the extractor: titles made of at most MaxTitleTokens pieces ----
MaxTitleTokens == 4

TitleTokens ==
  { <<"f","i">>, <<"F","x">>, <<"(">>, <<"(","#">>, <<"1","2">>, <<"0">>,
    <<")",":">>, <<":">>, <<" ">>, <<"-">>, <<"#">> }

IssueTitles == {Concat(ts) : ts \in SeqsUpTo(TitleTokens, MaxTitleTokens)}

IssueInit ==
  /\ prTitle \in IssueTitles /\ issue = <<>> /\ issuePc = "pending"
  /\ CatIdle /\ InlineIdle /\ BlockIdle /\ ReportIdle

ExtractIssue ==
  /\ issuePc = "pending"
  /\ issue' = extractIssueNumber(prTitle)
  /\ issuePc' = "done"
  /\ UNCHANGED <<prTitle, notIssue>>

(***************************************************************************)
(* IssueRefExtractor: properties                                           *)
(***************************************************************************)
\* t[from .. from + n - 1] lies inside t and consists of characters of C
AllIn(t, from, n, C) == \A k \in 0..(n - 1) : At(t, from + k) \in C

\* the decompositions (w, h, d) of a title that begins with a word of w
\* characters of W, "(", h times "#", d digits, ")" and ":"
ConvShapes(t, W) ==
  { x \in (1..Len(t)) \X {0, 1} \X (1..Len(t)) :
      /\ AllIn(t, 1, x[1], W)
      /\ At(t, x[1] + 1) = "("
      /\ (x[2] = 1 => At(t, x[1] + 2) = "#")
      /\ AllIn(t, x[1] + 2 + x[2], x[3], Digits)
      /\ At(t, x[1] + 2 + x[2] + x[3]) = ")"
      /\ At(t, x[1] + 3 + x[2] + x[3]) = ":" }

\* the digits between the parentheses of the decomposition x
ConvDigits(t, x) == SubSeq(t, x[1] + 2 + x[2], x[1] + 1 + x[2] + x[3])

\* "#", digits, white space
HashShape(t) ==
  /\ At(t, 1) = "#"
  /\ \E d \in 1..Len(t) : AllIn(t, 2, d, Digits) /\ At(t, 2 + d) \in WhiteSpace

\* digits, optional white space, "-" or ":"
SeparatorShape(t) ==
  \E d \in 1..Len(t) : \E s \in 0..Len(t) :
    /\ AllIn(t, 1, d, Digits)
    /\ AllIn(t, 1 + d, s, WhiteSpace)
    /\ At(t, 1 + d + s) \in {"-", ":"}

\* digits, white space, a letter
SpaceShape(t) ==
  \E d \in 1..Len(t) : \E s \in 1..Len(t) :
    /\ AllIn(t, 1, d, Digits)
    /\ AllIn(t, 1 + d, s, WhiteSpace)
    /\ At(t, 1 + d + s) \in Alpha

\* the first maximal run of digits of a title that has a digit
LeadingDigitRun(t) ==
  LET f == CHOOSE k \in 1..Len(t) :
             t[k] \in Digits /\ \A j \in 1..(k - 1) : t[j] \notin Digits
  IN  SubSeq(t, f, f + RunLen(t, f, Digits) - 1)

\* C4: extractIssueNumber returns a number only for a title that matches,
\* from index 0, one of the four shapes (word "(" [#] digits "):", "#" digits
\* white space, digits [white space] "-" or ":", digits white space letter),
\* and the number is then the value of the leading digit run; every other
\* title gives null, in particular a title of digits only, "#" and digits
\* only, a word with parentheses that hold no number, and a title outside
\* the four shapes whose numbers all come after index 0.
C4_NumberOnlyForTheFourShapes ==
  issuePc = "done" =>
    LET t == prTitle
        shaped == \/ ConvShapes(t, Alpha) # {}
                  \/ HashShape(t) \/ SeparatorShape(t) \/ SpaceShape(t)
    IN  /\ issue # <<>> => (shaped /\ issue = <<parseInt(LeadingDigitRun(t))>>)
        /\ ~shaped => issue = <<>>
        /\ (t # <<>> /\ AllIn(t, 1, Len(t), Digits)) => issue = <<>>
        /\ (At(t, 1) = "#" /\ AllIn(t, 2, Len(t) - 1, Digits)) => issue = <<>>
        /\ (\E w \in 1..Len(t) :
              /\ AllIn(t, 1, w, Alpha) /\ At(t, w + 1) = "("
              /\ At(t, w + 2) \notin (Digits \cup {"#"})) => issue = <<>>
        /\ (/\ ConvShapes(t, Alpha) = {}
            /\ At(t, 1) \notin Digits
            /\ ~(At(t, 1) = "#" /\ At(t, 2) \in Digits)) => issue = <<>>

\* "012 -x": shape three, the number of the leading digit run "012" is 12
C4_Witness ==
  /\ issuePc = "done"
  /\ prTitle = <<"0","1","2"," ","-">>
  /\ issue = <<12>>

\* C5 (as claimed): for a title that begins with a word of one or more
\* alphabetic letters followed by "(" digits "):" or "(#" digits "):",
\* extractIssueNumber returns the number written by those digits.
C5_AnyWordConventionalForm ==
  issuePc = "done" =>
    \A x \in ConvShapes(prTitle, Alpha) : issue = <<parseInt(ConvDigits(prTitle, x))>>

\* C5 (amended): the same for a word of one or more lower-case letters a-z.
C5_LowerCaseWordConventionalForm ==
  issuePc = "done" =>
    \A x \in ConvShapes(prTitle, LowerAZ) : issue = <<parseInt(ConvDigits(prTitle, x))>>

\* "fi(#12):" gives 12
C5_Witness ==
  /\ issuePc = "done"
  /\ prTitle = <<"f","i","(","#","1","2",")",":">>
  /\ issue = <<12>>

NextIssue == ExtractIssue
SpecIssue == IssueInit /\ [][NextIssue]_vars

(***************************************************************************)
(* InlineRunTokenizer: parse_rich_text of scripts/post-to-notion.sh        *)
(*                                                                         *)
(* The shell substitutes the text into the source of a Python program,     *)
(*     text = '''$text'''                                                 *)
(* so what the regular expressions see is the value Python gives to that   *)
(* string literal, and there is no value when the line is not a valid      *)
(* statement: the program then prints nothing and the shell falls back to  *)
(* one plain run holding the whole text.                                   *)
(***************************************************************************)
Quote == "'"
\* the backtick character (a name, since a string cannot hold it)
Backtick == "BACKTICK"
Backslash == "\\"

\* the value of the escape sequence backslash-c inside a Python string
\* literal, for the characters c of the inputs
PyEscape(c) ==
  CASE c = Backslash -> <<Backslash>>
    [] c = Quote -> <<Quote>>
    [] c = "a" -> <<"BEL">>
    [] c = "b" -> <<"BS">>
    [] OTHER -> <<Backslash, c>>

\* Python's reading of  ''' src  where src is the text followed by ''':
\* mode "triple" is inside a triple-quoted literal, "single" inside a
\* single-quoted literal, "code" between literals (adjacent literals are
\* concatenated; anything else after the first literal makes the statement
\* fail).  acc is the value so far.
RECURSIVE PyLex(_, _, _, _)
PyLex(src, i, mode, acc) ==
  IF i > Len(src)
  THEN IF mode = "code" THEN [ok |-> TRUE, text |-> acc]
                        ELSE [ok |-> FALSE, text |-> <<>>]
  ELSE
    LET c == src[i]
    IN  CASE mode = "triple" ->
               IF c = Backslash
               THEN IF i + 1 > Len(src) THEN [ok |-> FALSE, text |-> <<>>]
                    ELSE PyLex(src, i + 2, "triple", acc \o PyEscape(src[i + 1]))
               ELSE IF MatchAt(src, i, <<Quote, Quote, Quote>>)
               THEN PyLex(src, i + 3, "code", acc)
               ELSE PyLex(src, i + 1, "triple", acc \o <<c>>)
          [] mode = "single" ->
               IF c = Backslash
               THEN IF i + 1 > Len(src) THEN [ok |-> FALSE, text |-> <<>>]
                    ELSE PyLex(src, i + 2, "single", acc \o PyEscape(src[i + 1]))
               ELSE IF c = Quote
               THEN PyLex(src, i + 1, "code", acc)
               ELSE PyLex(src, i + 1, "single", acc \o <<c>>)
          [] mode = "code" ->
               IF c = " " THEN PyLex(src, i + 1, "code", acc)
               ELSE IF MatchAt(src, i, <<Quote, Quote, Quote>>)
               THEN PyLex(src, i + 3, "triple", acc)
               ELSE IF MatchAt(src, i, <<Quote, Quote>>)
               THEN PyLex(src, i + 2, "code", acc)
               ELSE IF c = Quote
               THEN PyLex(src, i + 1, "single", acc)
               ELSE [ok |-> FALSE, text |-> <<>>]

\* text = '''$text'''
PyLiteral(t) == PyLex(t \o <<Quote, Quote, Quote>>, 1, "triple", <<>>)

\* the number of consecutive characters other than c that start at index p
RunLenNot(t, p, c) ==
  CHOOSE n \in 0..Len(t) :
    /\ \A k \in 0..(n - 1) : p + k <= Len(t) /\ t[p + k] # c
    /\ (p + n > Len(t) \/ t[p + n] = c)

\* a rich_text object of the output
RichText(content, link, bold, code) ==
  [content |-> content, link |-> link, bold |-> bold, code |-> code]
PlainRun(content) == RichText(content, <<>>, FALSE, FALSE)

NoMatch == [found |-> FALSE]
Match(start, end, run) == [found |-> TRUE, start |-> start, end |-> end, run |-> run]

\* bold_link_pattern  \*\*\[([^\]]+)\]\(([^\)]+)\)\*\*  tried at index p
boldLinkAt(x, p) ==
  LET tl == RunLenNot(x, p + 3, "]")
      ul == RunLenNot(x, p + 5 + tl, ")")
  IN  IF /\ MatchAt(x, p, <<"*", "*", "[">>)
         /\ tl >= 1
         /\ MatchAt(x, p + 3 + tl, <<"]", "(">>)
         /\ ul >= 1
         /\ MatchAt(x, p + 5 + tl + ul, <<")", "*", "*">>)
      THEN Match(p, p + 8 + tl + ul,
                 RichText(SubSeq(x, p + 3, p + 2 + tl),
                          <<SubSeq(x, p + 5 + tl, p + 4 + tl + ul)>>, TRUE, FALSE))
      ELSE NoMatch

\* link_pattern  \[([^\]]+)\]\(([^\)]+)\)  tried at index p
linkAt(x, p) ==
  LET tl == RunLenNot(x, p + 1, "]")
      ul == RunLenNot(x, p + 3 + tl, ")")
  IN  IF /\ MatchAt(x, p, <<"[">>)
         /\ tl >= 1
         /\ MatchAt(x, p + 1 + tl, <<"]", "(">>)
         /\ ul >= 1
         /\ MatchAt(x, p + 3 + tl + ul, <<")">>)
      THEN Match(p, p + 4 + tl + ul,
                 RichText(SubSeq(x, p + 1, p + tl),
                          <<SubSeq(x, p + 3 + tl, p + 2 + tl + ul)>>, FALSE, FALSE))
      ELSE NoMatch

\* bold_pattern  \*\*([^\*]+)\*\*  tried at index p
boldAt(x, p) ==
  LET n == RunLenNot(x, p + 2, "*")
  IN  IF /\ MatchAt(x, p, <<"*", "*">>)
         /\ n >= 1
         /\ MatchAt(x, p + 2 + n, <<"*", "*">>)
      THEN Match(p, p + 4 + n, RichText(SubSeq(x, p + 2, p + 1 + n), <<>>, TRUE, FALSE))
      ELSE NoMatch

\* code_pattern  `([^`]+)`  tried at index p
codeAt(x, p) ==
  LET n == RunLenNot(x, p + 1, Backtick)
  IN  IF /\ MatchAt(x, p, <<Backtick>>)
         /\ n >= 1
         /\ MatchAt(x, p + 1 + n, <<Backtick>>)
      THEN Match(p, p + 2 + n, RichText(SubSeq(x, p + 1, p + n), <<>>, FALSE, TRUE))
      ELSE NoMatch

\* combined_pattern tried at index p: the alternatives in their order
combinedAt(x, p) ==
  IF boldLinkAt(x, p).found THEN boldLinkAt(x, p)
  ELSE IF linkAt(x, p).found THEN linkAt(x, p)
  ELSE IF boldAt(x, p).found THEN boldAt(x, p)
  ELSE codeAt(x, p)

\* re.finditer(combined_pattern, text): the matches, left to right, each
\* search starting where the previous match ended
RECURSIVE finditer(_, _)
finditer(x, from) ==
  IF \E p \in from..Len(x) : combinedAt(x, p).found
  THEN LET p == CHOOSE q \in from..Len(x) :
                  /\ combinedAt(x, q).found
                  /\ \A r \in from..(q - 1) : ~combinedAt(x, r).found
           m == combinedAt(x, p)
       IN  <<m>> \o finditer(x, m.end)
  ELSE <<>>

\* the body of the for loop and the code after it: plain text before each
\* match, the match, the plain text after the last match (pos is 1-based)
RECURSIVE emitRuns(_, _, _)
emitRuns(x, ms, pos) ==
  IF ms = <<>>
  THEN IF pos <= Len(x) THEN <<PlainRun(SubSeq(x, pos, Len(x)))>> ELSE <<>>
  ELSE LET m == Head(ms)
       IN  (IF m.start > pos THEN <<PlainRun(SubSeq(x, pos, m.start - 1))>> ELSE <<>>)
           \o <<m.run>> \o emitRuns(x, Tail(ms), m.end)

\* the Python program: [ok, rich_text, matches]
pythonRichText(t) ==
  LET lit == PyLiteral(t)
      ms == finditer(lit.text, 1)
      rt == emitRuns(lit.text, ms, 1)
  IN  IF ~lit.ok THEN [ok |-> FALSE, rich_text |-> <<>>, matches |-> <<>>]
      ELSE [ok |-> TRUE,
            rich_text |-> IF rt = <<>> THEN <<PlainRun(lit.text)>> ELSE rt,
            matches |-> ms]

\* parse_rich_text: [rich_text, matches]
parse_rich_text(t) ==
  IF t = <<>> THEN [rich_text |-> <<PlainRun(<<>>)>>, matches |-> <<>>]
  ELSE LET py == pythonRichText(t)
       IN  IF py.ok THEN [rich_text |-> py.rich_text, matches |-> py.matches]
           ELSE [rich_text |-> <<PlainRun(t)>>, matches |-> <<>>]

\* ---- inputs of the tokenizer: texts made of at most MaxInlineTokens pieces ----
MaxInlineTokens == 4

InlineTokens ==
  { <<"*","*","[","a","]","(","b",")","*","*">>, <<"[","a","]","(","b",")">>,
    <<"*","*">>, <<Backtick>>, <<"a">>, <<"[">>, <<"]","(">>, <<")">>,
    <<Quote>>, <<Backslash>> }

InlineTexts == {Concat(ts) : ts \in SeqsUpTo(InlineTokens, MaxInlineTokens)}

InlineInit ==
  /\ inlineText \in InlineTexts /\ rich_text = <<>> /\ spans = <<>>
  /\ inlinePc = "pending"
  /\ CatIdle /\ IssueIdle /\ BlockIdle /\ ReportIdle

ParseRichText ==
  /\ inlinePc = "pending"
  /\ \E out \in {parse_rich_text(inlineText)} :
       rich_text' = out.rich_text /\ spans' = out.matches
  /\ inlinePc' = "done"
  /\ UNCHANGED <<inlineText, notInline>>

(***************************************************************************)
(* InlineRunTokenizer: properties                                          *)
(***************************************************************************)
\* t[from .. from + n - 1] lies inside t and holds no character c
NoneIs(t, from, n, c) ==
  \A k \in 0..(n - 1) : from + k <= Len(t) /\ t[from + k] # c

\* the places <<p, tl, ul>> where the line holds "**[" text "](" url ")**"
\* from index p, with a text of tl >= 1 characters other than "]" and a url
\* of ul >= 1 characters other than ")"
BoldLinkPlaces(line) ==
  { x \in (1..Len(line)) \X (1..Len(line)) \X (1..Len(line)) :
      /\ MatchAt(line, x[1], <<"*", "*", "[">>)
      /\ NoneIs(line, x[1] + 3, x[2], "]")
      /\ MatchAt(line, x[1] + 3 + x[2], <<"]", "(">>)
      /\ NoneIs(line, x[1] + 5 + x[2], x[3], ")")
      /\ MatchAt(line, x[1] + 5 + x[2] + x[3], <<")", "*", "*">>) }

\* index p of the line lies inside a span that starts before p, the spans
\* being the leftmost non-overlapping marker matches of the line
ConsumedEarlier(line, p) ==
  \E k \in 1..Len(finditer(line, 1)) :
    finditer(line, 1)[k].start < p /\ p < finditer(line, 1)[k].end

\* C10: wherever the line holds "**[text](url)**" at a position that no
\* earlier span has consumed, the output has the one run BoldLink{text, url}
\* (bold, linked to url) for it; "**[a](b)**a" yields exactly
\* [BoldLink{a, b}, Plain{a}].
C10_BoldLinkIsOneRun ==
  inlinePc = "done" =>
    /\ \A x \in BoldLinkPlaces(inlineText) :
         ~ConsumedEarlier(inlineText, x[1]) =>
           \E k \in 1..Len(rich_text) :
             rich_text[k] =
               RichText(SubSeq(inlineText, x[1] + 3, x[1] + 2 + x[2]),
                        <<SubSeq(inlineText, x[1] + 5 + x[2], x[1] + 4 + x[2] + x[3])>>,
                        TRUE, FALSE)
    /\ inlineText = <<"*","*","[","a","]","(","b",")","*","*","a">> =>
         rich_text = << RichText(<<"a">>, << <<"b">> >>, TRUE, FALSE), PlainRun(<<"a">>) >>

\* a run written back as markdown: Plain{t} as t, Bold{t} as **t**,
\* Code{t} as `t`, Link{t,u} as [t](u), BoldLink{t,u} as **[t](u)**
renderRun(r) ==
  IF r.link # <<>>
  THEN IF r.bold
       THEN <<"*","*","[">> \o r.content \o <<"]","(">> \o r.link[1] \o <<")","*","*">>
       ELSE <<"[">> \o r.content \o <<"]","(">> \o r.link[1] \o <<")">>
  ELSE IF r.bold THEN <<"*","*">> \o r.content \o <<"*","*">>
  ELSE IF r.code THEN <<Backtick>> \o r.content \o <<Backtick>>
  ELSE r.content

\* the runs written back in order and concatenated
RECURSIVE renderRuns(_)
renderRuns(rt) ==
  IF rt = <<>> THEN <<>> ELSE renderRun(Head(rt)) \o renderRuns(Tail(rt))

\* C11: for every input line, the emitted runs written back as markdown in
\* order and concatenated give back exactly the input line (no character is
\* lost, duplicated or moved).
C11_RenderGivesBackTheLine ==
  inlinePc = "done" => renderRuns(rich_text) = inlineText

\* the line holds two separate "**", two backticks, or "[" .. "](" .. ")"
\* in this order: some marker could be complete
ClosedBold(line) ==
  \E i, j \in 1..Len(line) :
    j >= i + 2 /\ MatchAt(line, i, <<"*","*">>) /\ MatchAt(line, j, <<"*","*">>)
ClosedCode(line) ==
  \E i, j \in 1..Len(line) : i < j /\ line[i] = Backtick /\ line[j] = Backtick
CompleteLink(line) ==
  \E i, j, k \in 1..Len(line) :
    i < j /\ j + 1 < k /\ line[i] = "[" /\ MatchAt(line, j, <<"]","(">>) /\ line[k] = ")"
NoCompleteMarker(line) ==
  ~ClosedBold(line) /\ ~ClosedCode(line) /\ ~CompleteLink(line)

\* C12: a line with no complete marker (lone "**", lone backtick,
\* "[text](url" and the like included) yields exactly one Plain run whose
\* text is the entire line.
C12_NoMarkerIsOnePlainRun ==
  (inlinePc = "done" /\ NoCompleteMarker(inlineText)) =>
    rich_text = <<PlainRun(inlineText)>>

NextInline == ParseRichText
SpecInline == InlineInit /\ [][NextInline]_vars

(***************************************************************************)
(* BlockParser: convert_markdown_to_notion_blocks of post-to-notion.sh     *)
(* The local state of the function is the record                           *)
(*   [in_code_block, code_block_content, code_block_language, blocks].     *)
(***************************************************************************)
Newline == "\n"
Fence == <<Backtick, Backtick, Backtick>>
PlainTextLanguage == <<"p","l","a","i","n"," ","t","e","x","t">>

\* a block with a rich_text array, a code block, a divider
TextBlock(type, rt) == [type |-> type, rich_text |-> rt]
CodeBlock(content, lang) ==
  [type |-> "code", rich_text |-> <<PlainRun(content)>>,
   language |-> IF lang = <<>> THEN PlainTextLanguage ELSE lang]
DividerBlock == [type |-> "divider"]

\* [[ "$line" =~ ^```(.*)$ ]]
isFence(line) == MatchAt(line, 1, Fence)
\* BASH_REMATCH[1] of the fence pattern
fenceTag(line) == SubSeq(line, 4, Len(line))

\* [[ "$line" =~ ^#\ (.+)$ ]], ^##\ (.+)$, ^###\ (.+)$ : n is the number of #
headingMatch(line, n) ==
  /\ Len(line) >= n + 2
  /\ \A k \in 1..n : line[k] = "#"
  /\ line[n + 1] = " "

\* [[ "$line" =~ ^[0-9]+\.\ (.+)$ ]]
orderedMatch(line) ==
  LET d == RunLen(line, 1, Digits)
  IN  d >= 1 /\ At(line, d + 1) = "." /\ At(line, d + 2) = " " /\ Len(line) >= d + 3

\* (defect variant: white space is accepted before the list marker)
unorderedMatchIndented(line) ==
  LET s == RunLen(line, 1, WhiteSpace)
  IN  /\ At(line, s + 1) \in {"*", "-"}
      /\ At(line, s + 2) = " "
      /\ Len(line) >= s + 3

\* [[ "$line" =~ ^[\*\-]\ (.+)$ ]]
unorderedMatch(line) ==
  /\ At(line, 1) \in {"*", "-"}
  /\ At(line, 2) = " "
  /\ Len(line) >= 3

\* [[ "$line" =~ ^---+$ ]]
dividerMatch(line) ==
  Len(line) >= 3 /\ \A k \in 1..Len(line) : line[k] = "-"

\* the if / elif chain of a non-empty line outside a code block: the type
\* of the block appended for the line
lineType(line) ==
  IF headingMatch(line, 1) THEN "heading_1"
  ELSE IF headingMatch(line, 2) THEN "heading_2"
  ELSE IF headingMatch(line, 3) THEN "heading_3"
  ELSE IF orderedMatch(line) THEN "numbered_list_item"
  ELSE IF unorderedMatch(line) THEN "bulleted_list_item"
  ELSE IF dividerMatch(line) THEN "divider"
  ELSE "paragraph"

\* text="${BASH_REMATCH[1]}" of the branch taken ("$line" for a paragraph)
lineText(line) ==
  CASE lineType(line) = "heading_1" -> SubSeq(line, 3, Len(line))
    [] lineType(line) = "heading_2" -> SubSeq(line, 4, Len(line))
    [] lineType(line) = "heading_3" -> SubSeq(line, 5, Len(line))
    [] lineType(line) = "numbered_list_item" ->
         SubSeq(line, RunLen(line, 1, Digits) + 3, Len(line))
    [] lineType(line) = "bulleted_list_item" -> SubSeq(line, 3, Len(line))
    [] OTHER -> line

\* the block appended for a non-empty line outside a code block
lineBlock(line) ==
  IF lineType(line) = "divider" THEN DividerBlock
  ELSE TextBlock(lineType(line), parse_rich_text(lineText(line)).rich_text)

\* start of a code block
openFence(st, line) ==
  [st EXCEPT !.in_code_block = TRUE,
             !.code_block_language = fenceTag(line),
             !.code_block_content = <<>>]

\* "${code_block_content#$'\n'}"
stripLeadingNewline(c) ==
  IF c # <<>> /\ Head(c) = Newline THEN Tail(c) ELSE c

\* (defect variant: the leading newline of the content is not removed)
closeFenceKeepNewline(st) ==
  [in_code_block |-> FALSE,
   code_block_content |-> <<>>,
   code_block_language |-> <<>>,
   blocks |-> IF st.code_block_content # <<>>
              THEN Append(st.blocks,
                          CodeBlock(st.code_block_content, st.code_block_language))
              ELSE st.blocks]

\* end of a code block: the accumulated content is committed when non-empty
closeFence(st) ==
  [in_code_block |-> FALSE,
   code_block_content |-> <<>>,
   code_block_language |-> <<>>,
   blocks |-> IF st.code_block_content # <<>>
              THEN Append(st.blocks,
                          CodeBlock(stripLeadingNewline(st.code_block_content),
                                    st.code_block_language))
              ELSE st.blocks]

\* (defect variant: empty lines inside a code block are skipped)
accumulateSkipEmpty(st, line) ==
  IF line = <<>> THEN st
  ELSE [st EXCEPT !.code_block_content = @ \o <<Newline>> \o line]

\* code_block_content="$code_block_content"$'\n'"$line"
accumulate(st, line) ==
  [st EXCEPT !.code_block_content = @ \o <<Newline>> \o line]

\* one iteration of the while loop on the line read
loopBody(st, line) ==
  IF isFence(line)
  THEN IF ~st.in_code_block THEN openFence(st, line) ELSE closeFence(st)
  ELSE IF st.in_code_block THEN accumulate(st, line)
  ELSE IF line = <<>> THEN st
  ELSE [st EXCEPT !.blocks = Append(@, lineBlock(line))]

\* the local variables when the function starts
initialLocals ==
  [in_code_block |-> FALSE, code_block_content |-> <<>>,
   code_block_language |-> <<>>, blocks |-> <<>>]

\* the local variables after the loop has read the given lines
RECURSIVE convertLines(_)
convertLines(lines) ==
  IF lines = <<>> THEN initialLocals
  ELSE loopBody(convertLines(SubSeq(lines, 1, Len(lines) - 1)), lines[Len(lines)])

\* ---- inputs of the parser: at most MaxLines lines out of LineSamples ----
MaxLines == 4

LineSamples ==
  { <<>>,
    Fence,
    Fence \o <<"p","y">>,
    <<"#"," ","a">>,
    <<"#","#"," ","a">>,
    <<"#","#","#"," ","a">>,
    <<"#","#","#","#"," ","a">>,
    <<"1","."," ","a">>,
    <<"*"," ","a">>,
    <<"-"," ","a">>,
    <<"-","-","-">>,
    <<" ","-"," ","a">> }

locals ==
  [in_code_block |-> in_code_block, code_block_content |-> code_block_content,
   code_block_language |-> code_block_language, blocks |-> blocks]

BlockInit ==
  /\ consumed = <<>>
  /\ in_code_block = FALSE /\ code_block_content = <<>>
  /\ code_block_language = <<>> /\ blocks = <<>>
  /\ blockPc = "reading"
  /\ CatIdle /\ IssueIdle /\ InlineIdle /\ ReportIdle

\* `read -r line` delivers a line and the loop body runs on it
ReadLine ==
  /\ blockPc = "reading"
  /\ Len(consumed) < MaxLines
  /\ \E line \in LineSamples :
       /\ consumed' = Append(consumed, line)
       /\ \E st \in {loopBody(locals, line)} :
              /\ in_code_block' = st.in_code_block
              /\ code_block_content' = st.code_block_content
              /\ code_block_language' = st.code_block_language
              /\ blocks' = st.blocks
  /\ UNCHANGED <<blockPc, notBlock>>

\* (defect variant: a code block still open at the end of the input is committed)
EndOfInputFlush ==
  /\ blockPc = "reading"
  /\ Len(consumed) >= 1
  /\ (consumed[Len(consumed)] # <<>> \/ Len(consumed) = 1)
  /\ blockPc' = "done"
  /\ blocks' = IF in_code_block THEN closeFence(locals).blocks ELSE blocks
  /\ UNCHANGED <<consumed, in_code_block, code_block_content, code_block_language,
                 notBlock>>

\* `read` reaches the end of the here-string: `echo "$blocks"`.  The text
\* comes from $(cat file), which drops trailing newlines: it has at least
\* one line and its last line is empty only when it is the only line.
EndOfInput ==
  /\ blockPc = "reading"
  /\ Len(consumed) >= 1
  /\ (consumed[Len(consumed)] # <<>> \/ Len(consumed) = 1)
  /\ blockPc' = "done"
  /\ UNCHANGED <<consumed, in_code_block, code_block_content, code_block_language,
                 blocks, notBlock>>

(***************************************************************************)
(* BlockParser: properties                                                 *)
(***************************************************************************)
\* the index of the last fence line among the lines (there is one)
LastFenceIndex(ls) ==
  CHOOSE k \in 1..Len(ls) :
    isFence(ls[k]) /\ \A j \in (k + 1)..Len(ls) : ~isFence(ls[j])

\* the lines joined by newlines
RECURSIVE JoinLines(_)
JoinLines(ls) ==
  IF ls = <<>> THEN <<>>
  ELSE IF Len(ls) = 1 THEN ls[1]
  ELSE ls[1] \o <<Newline>> \o JoinLines(Tail(ls))

\* this step reads the line l
Reads(l) == blockPc = "reading" /\ consumed' = Append(consumed, l)

\* the lines after the fence that opened the current code block
LinesSinceFence == SubSeq(consumed, LastFenceIndex(consumed) + 1, Len(consumed))

\* the code block the claim expects at a closing fence
ExpectedCodeBlock ==
  LET tag == fenceTag(consumed[LastFenceIndex(consumed)])
  IN  [type |-> "code",
       rich_text |-> <<PlainRun(JoinLines(LinesSinceFence))>>,
       language |-> IF tag = <<>> THEN <<"p","l","a","i","n"," ","t","e","x","t">> ELSE tag]

\* C6 (as claimed): at every closing fence, however many lines lie between
\* the two fences, exactly one CodeBlock is appended; its language is the tag
\* of the opening fence ("plain text" for an empty tag), its text the lines
\* between the fences joined by newlines; afterwards the parser is in Normal
\* with an empty buffer.
C6_EveryClosedFenceEmitsOneCodeBlock ==
  [][ \A l \in LineSamples :
        (in_code_block /\ isFence(l) /\ Reads(l)) =>
          /\ blocks' = Append(blocks, ExpectedCodeBlock)
          /\ in_code_block' = FALSE
          /\ code_block_content' = <<>> ]_vars

\* C6 (amended): the same when at least one line lies between the two
\* fences; when the closing fence directly follows the opening fence no
\* block is emitted, and the parser is likewise back in Normal with an
\* empty buffer.
C6_NonEmptyClosedFenceEmitsOneCodeBlock ==
  [][ \A l \in LineSamples :
        (in_code_block /\ isFence(l) /\ Reads(l)) =>
          /\ LinesSinceFence # <<>> => blocks' = Append(blocks, ExpectedCodeBlock)
          /\ LinesSinceFence = <<>> => blocks' = blocks
          /\ in_code_block' = FALSE
          /\ code_block_content' = <<>> ]_vars

\* "```py", "# a", "", "```" has produced the one code block "# a\n" in py
C6_Witness ==
  /\ consumed = << Fence \o <<"p","y">>, <<"#"," ","a">>, <<>>, Fence >>
  /\ blocks = << [type |-> "code",
                  rich_text |-> <<PlainRun(<<"#"," ","a",Newline>>)>>,
                  language |-> <<"p","y">>] >>
  /\ in_code_block = FALSE
  /\ code_block_content = <<>>

\* every line preceded by a newline, in order
RECURSIVE NewlinePrefixed(_)
NewlinePrefixed(ls) ==
  IF ls = <<>> THEN <<>> ELSE <<Newline>> \o ls[1] \o NewlinePrefixed(Tail(ls))

\* C7: in InCodeBlock a line that is not a fence (empty, or a heading, list
\* item or divider of Normal) emits no block, leaves the emitted blocks as
\* they are, keeps the state InCodeBlock and is appended verbatim to the
\* buffer, which holds the lines since the opening fence in their order.
C7_CodeBlockLinesOnlyAccumulate ==
  [][ \A l \in LineSamples :
        (in_code_block /\ ~isFence(l) /\ Reads(l)) =>
          /\ blocks' = blocks
          /\ in_code_block' = TRUE
          /\ code_block_content' = code_block_content \o <<Newline>> \o l
          /\ code_block_content' = NewlinePrefixed(Append(LinesSinceFence, l)) ]_vars

\* after "```", "# a", "", "---" nothing is emitted and the buffer holds the
\* three lines
C7_Witness ==
  /\ consumed = << Fence, <<"#"," ","a">>, <<>>, <<"-","-","-">> >>
  /\ in_code_block = TRUE
  /\ blocks = <<>>
  /\ code_block_content = <<Newline, "#", " ", "a", Newline, Newline, "-", "-", "-">>

\* C8: when the input ends in InCodeBlock, the blocks are exactly those of
\* the lines before the unclosed fence taken alone: no CodeBlock for that
\* fence and no block for any line after it; the parser has ended normally.
C8_UnterminatedFenceDropsTheRest ==
  (blockPc = "done" /\ in_code_block) =>
    LET open == LastFenceIndex(consumed)
        before == SubSeq(consumed, 1, open - 1)
    IN  /\ blocks = convertLines(before).blocks
        /\ ~convertLines(before).in_code_block
        /\ Len(blocks) <= open - 1

\* "# a", "```py", "- a", "---" ends with the one heading
C8_Witness ==
  /\ blockPc = "done"
  /\ in_code_block = TRUE
  /\ consumed = << <<"#"," ","a">>, Fence \o <<"p","y">>, <<"-"," ","a">>, <<"-","-","-">> >>
  /\ Len(blocks) = 1
  /\ blocks[1].type = "heading_1"

\* l is pre followed by a non-empty text
MarkedLine(l, pre) == Len(l) > Len(pre) /\ MatchAt(l, 1, pre)

\* l is digits, ". " and a non-empty text: the number of digits, 0 if it is not
OrderedDigits(l) ==
  IF \E d \in 1..Len(l) :
       AllIn(l, 1, d, Digits) /\ MatchAt(l, d + 1, <<".", " ">>) /\ Len(l) > d + 2
  THEN CHOOSE d \in 1..Len(l) :
         AllIn(l, 1, d, Digits) /\ MatchAt(l, d + 1, <<".", " ">>) /\ Len(l) > d + 2
  ELSE 0

\* the block the rules of the claim give to a non-empty, non-fence line
ExpectedBlock(l) ==
  IF MarkedLine(l, <<"#", " ">>)
  THEN [type |-> "heading_1", rich_text |-> parse_rich_text(SubSeq(l, 3, Len(l))).rich_text]
  ELSE IF MarkedLine(l, <<"#", "#", " ">>)
  THEN [type |-> "heading_2", rich_text |-> parse_rich_text(SubSeq(l, 4, Len(l))).rich_text]
  ELSE IF MarkedLine(l, <<"#", "#", "#", " ">>)
  THEN [type |-> "heading_3", rich_text |-> parse_rich_text(SubSeq(l, 5, Len(l))).rich_text]
  ELSE IF OrderedDigits(l) > 0
  THEN [type |-> "numbered_list_item",
        rich_text |-> parse_rich_text(SubSeq(l, OrderedDigits(l) + 3, Len(l))).rich_text]
  ELSE IF MarkedLine(l, <<"*", " ">>) \/ MarkedLine(l, <<"-", " ">>)
  THEN [type |-> "bulleted_list_item",
        rich_text |-> parse_rich_text(SubSeq(l, 3, Len(l))).rich_text]
  ELSE IF Len(l) >= 3 /\ AllIn(l, 1, Len(l), {"-"})
  THEN [type |-> "divider"]
  ELSE [type |-> "paragraph", rich_text |-> parse_rich_text(l).rich_text]

\* C9: in Normal an empty line emits no block and every other line that is
\* not a fence appends exactly one block, chosen by the first rule that
\* matches: "# " text Heading 1, "## " text Heading 2, "### " text Heading 3,
\* digits ". " text ordered list item, "*" or "-" and " " text unordered
\* list item, three or more hyphens only Divider, anything else Paragraph;
\* a heading is never of another level.
C9_NormalLineRules ==
  [][ \A l \in LineSamples :
        (~in_code_block /\ ~isFence(l) /\ Reads(l)) =>
          /\ l = <<>> => blocks' = blocks
          /\ l # <<>> => blocks' = Append(blocks, ExpectedBlock(l))
          /\ in_code_block' = FALSE
          /\ \A k \in 1..Len(blocks') :
               blocks'[k].type \in
                 {"heading_1", "heading_2", "heading_3", "numbered_list_item",
                  "bulleted_list_item", "divider", "code", "paragraph"} ]_vars

\* "#### a", "", " - a", "## a" gave Paragraph, nothing, Paragraph, Heading 2
C9_Witness ==
  /\ consumed = << <<"#","#","#","#"," ","a">>, <<>>, <<" ","-"," ","a">>,
                   <<"#","#"," ","a">> >>
  /\ Len(blocks) = 3
  /\ blocks[1].type = "paragraph"
  /\ blocks[2].type = "paragraph"
  /\ blocks[3].type = "heading_2"

Next == ReadLine \/ EndOfInput
Spec == BlockInit /\ [][Next]_vars

(***************************************************************************)
(* Summary statistics: computeSummary of src/src/summary.ts                *)
(***************************************************************************)
ParsersIdle == CatIdle /\ IssueIdle /\ InlineIdle /\ BlockIdle

\* prs.reduce((sum, pr) => sum + pr.<field>, 0)
RECURSIVE reduceSum(_, _)
reduceSum(ps, field) ==
  IF ps = <<>> THEN 0
  ELSE reduceSum(SubSeq(ps, 1, Len(ps) - 1), field) + ps[Len(ps)][field]

\* new Set(prs.map((pr) => pr.author))
authorSet(ps) == {ps[k].author : k \in 1..Len(ps)}

\* (defect variant: the contributors are counted once per pull request)
computeSummaryPerPR(ps, cat) ==
  [totalPRs |-> Len(ps),
   totalContributors |-> Len(ps),
   totalAdditions |-> reduceSum(ps, "additions"),
   totalDeletions |-> reduceSum(ps, "deletions"),
   totalFilesChanged |-> reduceSum(ps, "changedFiles"),
   featureCount |-> Len(cat.features),
   bugFixCount |-> Len(cat.bugFixes),
   refactorCount |-> Len(cat.refactoring),
   securityCount |-> Len(cat.security),
   otherCount |-> Len(cat.other)]

computeSummary(ps, cat) ==
  [totalPRs |-> Len(ps),
   totalContributors |-> Cardinality(authorSet(ps)),
   totalAdditions |-> reduceSum(ps, "additions"),
   totalDeletions |-> reduceSum(ps, "deletions"),
   totalFilesChanged |-> reduceSum(ps, "changedFiles"),
   featureCount |-> Len(cat.features),
   bugFixCount |-> Len(cat.bugFixes),
   refactorCount |-> Len(cat.refactoring),
   securityCount |-> Len(cat.security),
   otherCount |-> Len(cat.other)]

\* ---- inputs: at most MaxSummaryPRs pull requests, each put in a bucket ----
MaxSummaryPRs == 3

SummaryPRKinds ==
  { [author |-> "alice", additions |-> 200, deletions |-> 50, changedFiles |-> 10],
    [author |-> "bob", additions |-> 100, deletions |-> 30, changedFiles |-> 5],
    [author |-> "alice", additions |-> 50, deletions |-> 0, changedFiles |-> 3] }

\* the elements of ps whose index the assignment f puts in the bucket key
RECURSIVE bucketOf(_, _, _)
bucketOf(ps, f, key) ==
  IF ps = <<>> THEN <<>>
  ELSE bucketOf(SubSeq(ps, 1, Len(ps) - 1), f, key)
       \o (IF f[Len(ps)] = key THEN <<ps[Len(ps)]>> ELSE <<>>)

SummaryInit ==
  /\ summaryPrs \in SeqsUpTo(SummaryPRKinds, MaxSummaryPRs)
  /\ \E f \in [1..Len(summaryPrs) -> CategoryKeys] :
       categorized = [key \in CategoryKeys |-> bucketOf(summaryPrs, f, key)]
  /\ stats = <<>> /\ statsPc = "pending"
  /\ ParsersIdle /\ ContribIdle /\ RenderIdle /\ FmtIdle /\ NotesIdle /\ PublishIdle

ComputeSummary ==
  /\ statsPc = "pending"
  /\ stats' = computeSummary(summaryPrs, categorized)
  /\ statsPc' = "done"
  /\ UNCHANGED <<summaryPrs, categorized, notSummary>>

\* the sum of a sequence of numbers
RECURSIVE SumSeq(_)
SumSeq(xs) == IF xs = <<>> THEN 0 ELSE Head(xs) + SumSeq(Tail(xs))

\* C13: totalPRs is the length of prs, totalContributors the number of
\* distinct author handles (the positions where a handle appears for the
\* first time), the three totals are the sums of the per-PR
\* values, the five category counts are the lengths of the buckets; for an
\* empty list every total is 0.
C13_SummaryTotals ==
  statsPc = "done" =>
    /\ stats.totalPRs = Len(summaryPrs)
    /\ stats.totalContributors =
         Cardinality({k \in 1..Len(summaryPrs) :
                        \A j \in 1..(k - 1) :
                          summaryPrs[j].author # summaryPrs[k].author})
    /\ stats.totalAdditions =
         SumSeq([k \in 1..Len(summaryPrs) |-> summaryPrs[k].additions])
    /\ stats.totalDeletions =
         SumSeq([k \in 1..Len(summaryPrs) |-> summaryPrs[k].deletions])
    /\ stats.totalFilesChanged =
         SumSeq([k \in 1..Len(summaryPrs) |-> summaryPrs[k].changedFiles])
    /\ stats.featureCount = Len(categorized.features)
    /\ stats.bugFixCount = Len(categorized.bugFixes)
    /\ stats.refactorCount = Len(categorized.refactoring)
    /\ stats.securityCount = Len(categorized.security)
    /\ stats.otherCount = Len(categorized.other)
    /\ summaryPrs = <<>> =>
         /\ stats.totalPRs = 0 /\ stats.totalContributors = 0
         /\ stats.totalAdditions = 0 /\ stats.totalDeletions = 0
         /\ stats.totalFilesChanged = 0

\* alice, bob, alice: three pull requests, two contributors, 350 additions
C13_Witness ==
  /\ statsPc = "done"
  /\ Len(summaryPrs) = 3
  /\ summaryPrs[1].author = "alice" /\ summaryPrs[2].author = "bob"
  /\ summaryPrs[3].author = "alice"
  /\ stats.totalPRs = 3 /\ stats.totalContributors = 2
  /\ stats.totalAdditions = 350
  /\ stats.featureCount = 1 /\ stats.bugFixCount = 1 /\ stats.otherCount = 1

NextSummary == ComputeSummary
SpecSummary == SummaryInit /\ [][NextSummary]_vars

(***************************************************************************)
(* Contributor list: buildContributorList of src/src/summary.ts            *)
(* The Map is the sequence of its entries in insertion order.              *)
(***************************************************************************)
\* counts.get(key) ?? 0
mapGet(m, key) ==
  IF \E k \in 1..Len(m) : m[k].username = key
  THEN m[CHOOSE k \in 1..Len(m) : m[k].username = key].count
  ELSE 0

\* counts.set(key, value): an existing key keeps its place, a new key is
\* added at the end
mapSet(m, key, value) ==
  IF \E k \in 1..Len(m) : m[k].username = key
  THEN [k \in 1..Len(m) |->
          IF m[k].username = key THEN [username |-> key, count |-> value] ELSE m[k]]
  ELSE Append(m, [username |-> key, count |-> value])

\* (defect variant: an entry is placed before the entries of equal count)
insertByCountBeforeTies(sorted, e) ==
  LET keep == Cardinality({k \in 1..Len(sorted) : sorted[k].count > e.count})
  IN  SubSeq(sorted, 1, keep) \o <<e>> \o SubSeq(sorted, keep + 1, Len(sorted))

\* one insertion of the stable sort with comparator (a, b) => b.count - a.count:
\* e goes after every entry whose count is not smaller
insertByCount(sorted, e) ==
  LET keep == Cardinality({k \in 1..Len(sorted) : sorted[k].count >= e.count})
  IN  SubSeq(sorted, 1, keep) \o <<e>> \o SubSeq(sorted, keep + 1, Len(sorted))

\* .sort((a, b) => b.count - a.count)  (Array.prototype.sort is stable)
RECURSIVE sortByCount(_)
sortByCount(es) ==
  IF es = <<>> THEN <<>>
  ELSE insertByCount(sortByCount(SubSeq(es, 1, Len(es) - 1)), es[Len(es)])

\* ---- inputs: at most MaxContribPRs pull requests of three authors ----
MaxContribPRs == 4

ContribAuthors == {"alice", "bob", "carol"}

ContribInit ==
  /\ contribPrs \in SeqsUpTo({[author |-> a] : a \in ContribAuthors}, MaxContribPRs)
  /\ counts = <<>> /\ contribIdx = 0 /\ contributors = <<>>
  /\ contribPc = "counting"
  /\ ParsersIdle /\ SummaryIdle /\ RenderIdle /\ FmtIdle /\ NotesIdle /\ PublishIdle

\* for (const pr of prs) counts.set(pr.author, (counts.get(pr.author) ?? 0) + 1)
CountAuthor ==
  /\ contribPc = "counting"
  /\ contribIdx < Len(contribPrs)
  /\ contribIdx' = contribIdx + 1
  /\ counts' = mapSet(counts, contribPrs[contribIdx + 1].author,
                      mapGet(counts, contribPrs[contribIdx + 1].author) + 1)
  /\ UNCHANGED <<contribPrs, contributors, contribPc, notContrib>>

\* return Array.from(counts.entries()).map(...).sort(...)
ReturnContributors ==
  /\ contribPc = "counting"
  /\ contribIdx = Len(contribPrs)
  /\ contributors' = sortByCount(counts)
  /\ contribPc' = "done"
  /\ UNCHANGED <<contribPrs, counts, contribIdx, notContrib>>

\* the index of the first pull request of the author
FirstSeen(ps, a) ==
  CHOOSE k \in 1..Len(ps) : ps[k].author = a /\ \A j \in 1..(k - 1) : ps[j].author # a

\* C14: one entry per distinct author, with count the number of that
\* author's pull requests (the counts sum to the length of prs), sorted by
\* count descending, entries of equal count in the order in which their
\* authors first appear in prs.
C14_ContributorList ==
  contribPc = "done" =>
    /\ \A i, j \in 1..Len(contributors) :
         contributors[i].username = contributors[j].username => i = j
    /\ {contributors[i].username : i \in 1..Len(contributors)}
         = {contribPrs[k].author : k \in 1..Len(contribPrs)}
    /\ \A i \in 1..Len(contributors) :
         contributors[i].count =
           Cardinality({k \in 1..Len(contribPrs) :
                          contribPrs[k].author = contributors[i].username})
    /\ SumSeq([i \in 1..Len(contributors) |-> contributors[i].count])
         = Len(contribPrs)
    /\ \A i, j \in 1..Len(contributors) :
         i < j =>
           /\ contributors[i].count >= contributors[j].count
           /\ contributors[i].count = contributors[j].count =>
                FirstSeen(contribPrs, contributors[i].username)
                  < FirstSeen(contribPrs, contributors[j].username)

\* bob, alice, alice, carol gave alice 2, bob 1, carol 1
C14_Witness ==
  /\ contribPc = "done"
  /\ contribPrs = <<[author |-> "bob"], [author |-> "alice"],
                    [author |-> "alice"], [author |-> "carol"]>>
  /\ contributors = <<[username |-> "alice", count |-> 2],
                      [username |-> "bob", count |-> 1],
                      [username |-> "carol", count |-> 1]>>

NextContrib == CountAuthor \/ ReturnContributors
SpecContrib == ContribInit /\ [][NextContrib]_vars

(***************************************************************************)
(* formatNumber of src/src/summary.ts                                      *)
(***************************************************************************)
DigitChars == <<"0","1","2","3","4","5","6","7","8","9">>

\* String(n) / `${n}` of a non-negative integer: its decimal digits
RECURSIVE numberToString(_)
numberToString(m) ==
  IF m < 10 THEN <<DigitChars[m + 1]>>
  ELSE numberToString(m \div 10) \o <<DigitChars[(m % 10) + 1]>>

\* a group of three digits, leading zeros included
threeDigits(m) ==
  <<DigitChars[(m \div 100) + 1], DigitChars[((m \div 10) % 10) + 1],
    DigitChars[(m % 10) + 1]>>

\* (defect variant: the groups after the first are written without their
\* leading zeros)
RECURSIVE formatNumberUnpadded(_)
formatNumberUnpadded(m) ==
  IF m < 1000 THEN numberToString(m)
  ELSE formatNumberUnpadded(m \div 1000) \o <<",">> \o numberToString(m % 1000)

\* n.toLocaleString("en-US") of a non-negative integer: groups of three
\* digits from the right, separated by commas
RECURSIVE formatNumber(_)
formatNumber(m) ==
  IF m < 1000 THEN numberToString(m)
  ELSE formatNumber(m \div 1000) \o <<",">> \o threeDigits(m % 1000)

\* ---- inputs: the numbers of at most MaxFormatDigits digits 0, 4, 9 ----
MaxFormatDigits == 7

RECURSIVE valueOf(_)
valueOf(ds) ==
  IF ds = <<>> THEN 0 ELSE 10 * valueOf(SubSeq(ds, 1, Len(ds) - 1)) + ds[Len(ds)]

FormatInputs ==
  {valueOf(ds) : ds \in SeqsUpTo({0, 4, 9}, MaxFormatDigits)} \cup {42, 4231}

FmtInit ==
  /\ fmtN \in FormatInputs /\ formatted = <<>> /\ fmtPc = "pending"
  /\ ParsersIdle /\ SummaryIdle /\ ContribIdle /\ RenderIdle /\ NotesIdle /\ PublishIdle

FormatNumber ==
  /\ fmtPc = "pending"
  /\ formatted' = formatNumber(fmtN)
  /\ fmtPc' = "done"
  /\ UNCHANGED <<fmtN, notFmt>>

\* the string without its commas
RemoveCommas(t) == SelectSeq(t, LAMBDA c : c # ",")

\* C17: for a non-negative integer n the result is the decimal digits of n
\* unchanged when n < 1000 and, when n >= 1000, the same digits with a
\* comma between every group of three digits counted from the right;
\* removing the commas gives back the decimal representation of n
\* (0 gives "0", 42 gives "42", 4231 gives "4,231").
C17_FormatNumberGroupsByThree ==
  fmtPc = "done" =>
    /\ RemoveCommas(formatted) = numberToString(fmtN)
    /\ parseInt(RemoveCommas(formatted)) = fmtN
    /\ fmtN < 1000 => formatted = numberToString(fmtN)
    /\ fmtN >= 1000 => \E k \in 1..Len(formatted) : formatted[k] = ","
    /\ \A k \in 1..Len(formatted) :
         (formatted[Len(formatted) - k + 1] = ",") <=> (k % 4 = 0)
    /\ formatted[1] # ","
    /\ fmtN = 0 => formatted = <<"0">>
    /\ fmtN = 42 => formatted = <<"4","2">>
    /\ fmtN = 4231 => formatted = <<"4",",","2","3","1">>

\* 4009000 gave "4,009,000"
C17_Witness ==
  /\ fmtPc = "done" /\ fmtN = 4009000
  /\ formatted = <<"4",",","0","0","9",",","0","0","0">>

NextFmt == FormatNumber
SpecFmt == FmtInit /\ [][NextFmt]_vars

(***************************************************************************)
(* renderSummaryText of src/src/summary.ts                                 *)
(***************************************************************************)
\* Array.prototype.join
RECURSIVE join(_, _)
join(parts, sep) ==
  IF parts = <<>> THEN <<>>
  ELSE IF Len(parts) = 1 THEN parts[1]
  ELSE parts[1] \o sep \o join(Tail(parts), sep)

\* (defect variant: both suffixes follow the number of pull requests)
firstSentenceOneSuffix(st) ==
  <<"T","h","i","s"," ","r","e","l","e","a","s","e"," ","i","n","c","l","u","d","e","s"," ","*","*">> \o numberToString(st.totalPRs)
  \o <<"*","*"," ","m","e","r","g","e","d"," ","p","u","l","l"," ","r","e","q","u","e","s","t">>
  \o (IF st.totalPRs # 1 THEN <<"s">> ELSE <<>>)
  \o <<" ","f","r","o","m"," ","*","*">> \o numberToString(st.totalContributors)
  \o <<"*","*"," ","c","o","n","t","r","i","b","u","t","o","r">>
  \o (IF st.totalPRs # 1 THEN <<"s">> ELSE <<>>) \o <<".">>

\* `This release includes **${totalPRs}** merged pull request${...} from
\* **${totalContributors}** contributor${...}.`
firstSentence(st) ==
  <<"T","h","i","s"," ","r","e","l","e","a","s","e"," ","i","n","c","l","u","d","e","s"," ","*","*">> \o numberToString(st.totalPRs)
  \o <<"*","*"," ","m","e","r","g","e","d"," ","p","u","l","l"," ","r","e","q","u","e","s","t">>
  \o (IF st.totalPRs # 1 THEN <<"s">> ELSE <<>>)
  \o <<" ","f","r","o","m"," ","*","*">> \o numberToString(st.totalContributors)
  \o <<"*","*"," ","c","o","n","t","r","i","b","u","t","o","r">>
  \o (IF st.totalContributors # 1 THEN <<"s">> ELSE <<>>) \o <<".">>

\* `label (${count})` when count > 0, nothing otherwise
focusArea(label, count) ==
  IF count > 0 THEN << label \o <<" ","(">> \o numberToString(count) \o <<")">> >>
  ELSE <<>>

FeaturesLabel == <<"n","e","w"," ","f","e","a","t","u","r","e","s">>
BugFixesLabel == <<"b","u","g"," ","f","i","x","e","s">>
RefactoringLabel == <<"i","n","f","r","a","s","t","r","u","c","t","u","r","e"," ","/"," ","r","e","f","a","c","t","o","r","i","n","g">>
SecurityLabel == <<"s","e","c","u","r","i","t","y"," ","i","m","p","r","o","v","e","m","e","n","t","s">>
OtherLabel == <<"o","t","h","e","r"," ","c","h","a","n","g","e","s">>

\* (defect variant: security is listed before refactoring)
focusAreasSecurityFirst(st) ==
  focusArea(FeaturesLabel, st.featureCount)
  \o focusArea(BugFixesLabel, st.bugFixCount)
  \o focusArea(SecurityLabel, st.securityCount)
  \o focusArea(RefactoringLabel, st.refactorCount)
  \o focusArea(OtherLabel, st.otherCount)

\* the focusAreas array
focusAreas(st) ==
  focusArea(FeaturesLabel, st.featureCount)
  \o focusArea(BugFixesLabel, st.bugFixCount)
  \o focusArea(RefactoringLabel, st.refactorCount)
  \o focusArea(SecurityLabel, st.securityCount)
  \o focusArea(OtherLabel, st.otherCount)

\* `Major focus areas: ${focusAreas.join(", ")}.`
focusSentence(st) ==
  IF Len(focusAreas(st)) > 0
  THEN << <<"M","a","j","o","r"," ","f","o","c","u","s"," ","a","r","e","a","s",":"," ">>
          \o join(focusAreas(st), <<",", " ">>) \o <<".">> >>
  ELSE <<>>

\* `Total code delta: **+${...}** / **-${...}** lines across **${...}** files.`
deltaSentence(st) ==
  <<"T","o","t","a","l"," ","c","o","d","e"," ","d","e","l","t","a",":"," ","*","*","+">>
  \o formatNumber(st.totalAdditions) \o <<"*","*"," ","/"," ","*","*","-">>
  \o formatNumber(st.totalDeletions)
  \o <<"*","*"," ","l","i","n","e","s"," ","a","c","r","o","s","s"," ","*","*">>
  \o formatNumber(st.totalFilesChanged) \o <<"*","*"," ","f","i","l","e","s",".">>

\* lines.join("  \n")
renderSummaryText(st) ==
  join(<<firstSentence(st)>> \o focusSentence(st) \o <<deltaSentence(st)>>,
       <<" ", " ", Newline>>)

\* ---- inputs: statistics with counts up to MaxRenderCount (and 12, 24) ----
MaxRenderCount == 1

RenderCounts == (0..MaxRenderCount) \cup {12}
RenderTotals == (0..MaxRenderCount) \cup {24}

RenderInputs ==
  [totalPRs : RenderTotals, totalContributors : RenderTotals,
   totalAdditions : {0, 4231}, totalDeletions : {1203}, totalFilesChanged : {89},
   featureCount : RenderCounts, bugFixCount : RenderCounts,
   refactorCount : RenderCounts, securityCount : RenderCounts,
   otherCount : RenderCounts]

RenderInit ==
  /\ renderStats \in RenderInputs /\ summaryText = <<>> /\ renderPc = "pending"
  /\ ParsersIdle /\ SummaryIdle /\ ContribIdle /\ FmtIdle /\ NotesIdle /\ PublishIdle

RenderSummaryText ==
  /\ renderPc = "pending"
  /\ summaryText' = renderSummaryText(renderStats)
  /\ renderPc' = "done"
  /\ UNCHANGED <<renderStats, notRender>>

\* the index of the first occurrence of s in t, 0 when there is none
IndexOf(t, s) ==
  IF Includes(t, s)
  THEN CHOOSE p \in 1..(Len(t) + 1) :
         MatchAt(t, p, s) /\ \A q \in 1..(p - 1) : ~MatchAt(t, q, s)
  ELSE 0

\* the character that follows the first occurrence of s in t
AfterFirst(t, s) == At(t, IndexOf(t, s) + Len(s))

FocusHeader == <<"M","a","j","o","r"," ","f","o","c","u","s"," ","a","r","e","a","s">>
FocusLabels ==
  <<FeaturesLabel, BugFixesLabel, RefactoringLabel, SecurityLabel, OtherLabel>>
FocusCounts(st) ==
  <<st.featureCount, st.bugFixCount, st.refactorCount, st.securityCount,
    st.otherCount>>

\* "label (count)" of the categories from index i on whose count is not 0,
\* each preceded by ", " except the first of the sentence
RECURSIVE ExpectedListing(_, _, _)
ExpectedListing(cs, i, first) ==
  IF i > 5 THEN <<>>
  ELSE IF cs[i] = 0 THEN ExpectedListing(cs, i + 1, first)
  ELSE (IF first THEN <<>> ELSE <<",", " ">>)
       \o FocusLabels[i] \o <<" ", "(">> \o numberToString(cs[i]) \o <<")">>
       \o ExpectedListing(cs, i + 1, FALSE)

\* C15: the "Major focus areas" sentence is present if and only if at
\* least one of the five category counts is greater than 0, and it lists
\* exactly the categories with a non-zero count, each as "label (count)",
\* in the fixed order features, bugFixes, refactoring, security, other.
C15_FocusAreasSentence ==
  renderPc = "done" =>
    /\ Includes(summaryText, FocusHeader)
         <=> \E i \in 1..5 : FocusCounts(renderStats)[i] > 0
    /\ \A i \in 1..5 :
         Includes(summaryText, FocusLabels[i]) <=> FocusCounts(renderStats)[i] > 0
    /\ \A i, j \in 1..5 :
         (i < j /\ FocusCounts(renderStats)[i] > 0 /\ FocusCounts(renderStats)[j] > 0)
           => IndexOf(summaryText, FocusLabels[i]) < IndexOf(summaryText, FocusLabels[j])
    /\ Includes(summaryText, FocusHeader) =>
         MatchAt(summaryText, IndexOf(summaryText, FocusHeader),
                 FocusHeader \o <<":", " ">>
                 \o ExpectedListing(FocusCounts(renderStats), 1, TRUE)
                 \o <<".", " ", " ", Newline>>)

\* features 12, refactoring 1, security 1: the three are listed in this order
C15_Witness ==
  /\ renderPc = "done"
  /\ renderStats.featureCount = 12 /\ renderStats.bugFixCount = 0
  /\ renderStats.refactorCount = 1 /\ renderStats.securityCount = 1
  /\ renderStats.otherCount = 0
  /\ Includes(summaryText,
       <<"M","a","j","o","r"," ","f","o","c","u","s"," ","a","r","e","a","s",":"," ","n","e","w"," ","f","e","a","t","u","r","e","s"," ","(","1","2",")",","," ","i","n","f","r","a","s","t","r","u","c","t","u","r","e"," ","/"," ","r","e","f","a","c","t","o","r","i","n","g"," ","(","1",")",","," ","s","e","c","u","r","i","t","y"," ","i","m","p","r","o","v","e","m","e","n","t","s"," ","(","1",")",".">>)

\* C16: the first sentence writes "pull request" without a trailing "s"
\* exactly when totalPRs = 1 and "contributor" without a trailing "s"
\* exactly when totalContributors = 1, each suffix chosen on its own
\* number; 0 takes the plural.
C16_PluralSuffixes ==
  renderPc = "done" =>
    /\ MatchAt(summaryText, 1, <<"T","h","i","s"," ","r","e","l","e","a","s","e"," ","i","n","c","l","u","d","e","s"," ","*","*">>)
    /\ IndexOf(summaryText, <<"p","u","l","l"," ","r","e","q","u","e","s","t">>) > 0
    /\ IndexOf(summaryText, <<"c","o","n","t","r","i","b","u","t","o","r">>) > 0
    /\ (AfterFirst(summaryText, <<"p","u","l","l"," ","r","e","q","u","e","s","t">>) # "s")
         <=> renderStats.totalPRs = 1
    /\ (AfterFirst(summaryText, <<"c","o","n","t","r","i","b","u","t","o","r">>) # "s")
         <=> renderStats.totalContributors = 1
    /\ renderStats.totalPRs = 1 =>
         AfterFirst(summaryText, <<"p","u","l","l"," ","r","e","q","u","e","s","t">>) = " "
    /\ renderStats.totalContributors = 1 =>
         AfterFirst(summaryText, <<"c","o","n","t","r","i","b","u","t","o","r">>) = "."

\* one pull request from 0 contributors: "pull request " and "contributors."
C16_Witness ==
  /\ renderPc = "done"
  /\ renderStats.totalPRs = 1 /\ renderStats.totalContributors = 0
  /\ MatchAt(summaryText, 1,
       <<"T","h","i","s"," ","r","e","l","e","a","s","e"," ","i","n","c","l","u","d","e","s"," ","*","*","1","*","*"," ","m","e","r","g","e","d"," ","p","u","l","l"," ","r","e","q","u","e","s","t"," ","f","r","o","m"," ","*","*","0","*","*"," ","c","o","n","t","r","i","b","u","t","o","r","s",".">>)

NextRender == RenderSummaryText
SpecRender == RenderInit /\ [][NextRender]_vars

(***************************************************************************)
(* Release notes: renderPREntry, renderCategorySection, renderContributors *)
(* and generateReleaseNotes (releaseNotes.ts, in src/src/publishers.ts)    *)
(* The en dash, the arrow and the emoji are single characters.             *)
(***************************************************************************)
EnDash == "EN_DASH"
Arrow == "ARROW"

\* s.slice(0, n)
slice0(t, len) == SubSeq(t, 1, IF Len(t) < len THEN Len(t) ELSE len)

\* the lines of a PR entry about its linked issue
issueLines(p) ==
  IF p.linkedIssue # <<>>
  THEN << <<" "," ","-"," ","I","s","s","u","e",":"," ","[","#">> \o numberToString(p.linkedIssue[1].number)
          \o <<"]","(">> \o p.linkedIssue[1].url \o <<")"," ",EnDash," ">>
          \o p.linkedIssue[1].title,
          <<" "," "," "," ","-"," ","L","a","b","e","l","s",":"," ">>
          \o (IF Len(p.linkedIssue[1].labels) > 0
              THEN join(p.linkedIssue[1].labels, <<",", " ">>)
              ELSE <<"n","o","n","e">>),
          <<" "," "," "," ","-"," ","T","y","p","e",":"," ">> \o p.linkedIssue[1].type >>
  ELSE << <<" "," ","-"," ","I","s","s","u","e",":"," ","_","N","o"," ","l","i","n","k","e","d"," ","i","s","s","u","e","_">> >>

renderPREntry(p) ==
  join(<< <<"-"," ","*","*","[","P","R"," ","#">> \o numberToString(p.number) \o <<"]","(">> \o p.htmlUrl
          \o <<")","*","*"," ",EnDash," ">> \o p.title,
          <<" "," ","-"," ","A","u","t","h","o","r",":"," ","@">> \o p.author,
          <<" "," ","-"," ","M","e","r","g","e","d",":"," ">> \o slice0(p.mergedAt, 10) >>
       \o issueLines(p)
       \o << <<" "," ","-"," ","F","i","l","e","s"," ","c","h","a","n","g","e","d",":"," ">> \o numberToString(p.changedFiles)
             \o <<" ","(","+">> \o numberToString(p.additions)
             \o <<" ","/"," ","-">> \o numberToString(p.deletions) \o <<")">> >>
       \o (IF Len(p.labels) > 0
           THEN << <<" "," ","-"," ","L","a","b","e","l","s",":"," ">> \o join(p.labels, <<",", " ">>) >>
           ELSE <<>>),
       <<Newline>>)

\* (defect variant: only the first pull request of the bucket is rendered)
renderCategorySectionFirstOnly(heading, ps) ==
  IF Len(ps) = 0 THEN <<>>
  ELSE <<"#","#","#"," ">> \o heading \o <<Newline, Newline>> \o renderPREntry(ps[1])

renderCategorySection(heading, ps) ==
  IF Len(ps) = 0 THEN <<>>
  ELSE <<"#","#","#"," ">> \o heading \o <<Newline, Newline>>
       \o join([k \in 1..Len(ps) |-> renderPREntry(ps[k])], <<Newline, Newline>>)

renderContributors(cs) ==
  IF Len(cs) = 0 THEN <<"_","N","o"," ","c","o","n","t","r","i","b","u","t","o","r","s"," ","i","n"," ","t","h","i","s"," ","p","e","r","i","o","d",".","_">>
  ELSE join([k \in 1..Len(cs) |->
               <<"-"," ","@">> \o cs[k].username \o <<" ","(">>
               \o numberToString(cs[k].count) \o <<" ","P","R">>
               \o (IF cs[k].count # 1 THEN <<"s">> ELSE <<>>) \o <<")">>],
            <<Newline>>)

\* categorizePRs as a function of the list
categorizePRs(ps) ==
  [key \in CategoryKeys |->
     bucketOf(ps, [k \in 1..Len(ps) |-> categorizePR(ps[k])], key)]

\* counts.set(key, (counts.get(key) ?? 0) + 1)
mapIncrement(m, key) == mapSet(m, key, mapGet(m, key) + 1)

\* the Map after the for loop of buildContributorList
RECURSIVE countAuthors(_)
countAuthors(ps) ==
  IF ps = <<>> THEN <<>>
  ELSE mapIncrement(countAuthors(SubSeq(ps, 1, Len(ps) - 1)), ps[Len(ps)].author)

buildContributorList(ps) == sortByCount(countAuthors(ps))

FeaturesHeading == <<"ROCKET"," ","F","e","a","t","u","r","e","s">>
BugFixesHeading == <<"BUG"," ","B","u","g"," ","F","i","x","e","s">>
SecurityHeading == <<"LOCK"," ","S","e","c","u","r","i","t","y">>
RefactoringHeading == <<"BROOM"," ","R","e","f","a","c","t","o","r","i","n","g"," ","/"," ","M","a","i","n","t","e","n","a","n","c","e">>
OtherHeading == <<"PACKAGE"," ","O","t","h","e","r"," ","C","h","a","n","g","e","s">>

\* (defect variant: the subsections follow the order of the summary
\* sentence, refactoring before security)
categorySectionsSummaryOrder(cat) ==
  SelectSeq(<< renderCategorySection(FeaturesHeading, cat.features),
               renderCategorySection(BugFixesHeading, cat.bugFixes),
               renderCategorySection(RefactoringHeading, cat.refactoring),
               renderCategorySection(SecurityHeading, cat.security),
               renderCategorySection(OtherHeading, cat.other) >>,
            LAMBDA sec : Len(sec) > 0)

\* [featureSection, ..., otherSection].filter((s) => s.length > 0)
categorySections(cat) ==
  SelectSeq(<< renderCategorySection(FeaturesHeading, cat.features),
               renderCategorySection(BugFixesHeading, cat.bugFixes),
               renderCategorySection(SecurityHeading, cat.security),
               renderCategorySection(RefactoringHeading, cat.refactoring),
               renderCategorySection(OtherHeading, cat.other) >>,
            LAMBDA sec : Len(sec) > 0)

\* the header section
headerSection(owner, repo, from, to, now) ==
  join(<< <<"#"," ","R","e","l","e","a","s","e"," ","N","o","t","e","s">>,
          <<>>,
          <<"*","*","R","e","p","o","s","i","t","o","r","y",":","*","*"," ">> \o owner \o <<"/">> \o repo \o <<" "," ">>,
          <<"*","*","P","e","r","i","o","d",":","*","*"," ">> \o from \o <<" ",Arrow," ">> \o to \o <<" "," ">>,
          <<"*","*","G","e","n","e","r","a","t","e","d",":","*","*"," ">> \o now >>,
       <<Newline>>)

\* the "Changes by Category" section
categoryLines(secs) ==
  join(<< <<"#","#"," ","C","h","a","n","g","e","s"," ","b","y"," ","C","a","t","e","g","o","r","y">>, <<>>,
          IF Len(secs) = 0 THEN <<"_","N","o"," ","c","h","a","n","g","e","s"," ","i","n"," ","t","h","i","s"," ","p","e","r","i","o","d",".","_">>
          ELSE join(secs, <<Newline, Newline>>) >>,
       <<Newline>>)

\* the four sections, given the buckets
notesSections(owner, repo, from, to, ps, now, cat) ==
  << headerSection(owner, repo, from, to, now),
     join(<< <<"#","#"," ","E","x","e","c","u","t","i","v","e"," ","S","u","m","m","a","r","y">>, <<>>,
             renderSummaryText(computeSummary(ps, cat)) >>, <<Newline>>),
     categoryLines(categorySections(cat)),
     join(<< <<"#","#"," ","C","o","n","t","r","i","b","u","t","o","r","s">>, <<>>,
             renderContributors(buildContributorList(ps)) >>, <<Newline>>) >>

\* sections.join("\n\n---\n\n") + "\n"
generateReleaseNotes(owner, repo, from, to, ps, now) ==
  join(notesSections(owner, repo, from, to, ps, now, categorizePRs(ps)),
       <<Newline, Newline, "-", "-", "-", Newline, Newline>>)
  \o <<Newline>>

\* ---- inputs: at most MaxReleasePRs pull requests, numbered by position ----
MaxReleasePRs == 3

ReleasePRKinds ==
  { [title |-> <<"a","d","d"," ","x">>, labels |-> <<>>, author |-> <<"a","l">>,
     mergedAt |-> <<"2","0","2","6","-","0","1","-","1","5","T","1","2",":","0","0",":","0","0","Z">>, additions |-> 1200, deletions |-> 5,
     changedFiles |-> 3, htmlUrl |-> <<"u">>, linkedIssue |-> <<>>],
    [title |-> <<"f","i","x"," ","y">>, labels |-> << <<"b","u","g">>, <<"p","1">> >>, author |-> <<"b","o">>,
     mergedAt |-> <<"2","0","2","6","-","0","1","-","1","6","T","0","8",":","3","0",":","0","0","Z">>, additions |-> 10, deletions |-> 0,
     changedFiles |-> 1, htmlUrl |-> <<"v">>,
     linkedIssue |-> << [number |-> 7, url |-> <<"i">>, title |-> <<"c","r","a","s","h">>,
                         labels |-> << <<"p","1">> >>, type |-> <<"b","u","g">>] >>],
    [title |-> <<"c","v","e"," ","z">>, labels |-> <<>>, author |-> <<"a","l">>,
     mergedAt |-> <<"2","0","2","6","-","0","1","-","1","7","T","0","9",":","0","0",":","0","0","Z">>, additions |-> 2, deletions |-> 2,
     changedFiles |-> 1, htmlUrl |-> <<"w">>,
     linkedIssue |-> << [number |-> 8, url |-> <<"j">>, title |-> <<"l","e","a","k">>,
                         labels |-> <<>>, type |-> <<"t","a","s","k">>] >>],
    [title |-> <<"m","i","s","c">>, labels |-> << <<"d","o","c","s">> >>, author |-> <<"c","y">>,
     mergedAt |-> <<"2","0","2","6","-","0","1","-","1","8","T","1","0",":","0","0",":","0","0","Z">>, additions |-> 0, deletions |-> 40,
     changedFiles |-> 2, htmlUrl |-> <<"x">>, linkedIssue |-> <<>>],
    [title |-> <<"m","i","s","c">>, labels |-> <<>>, author |-> <<"b","o">>,
     mergedAt |-> <<"2","0","2","6","-","0","1","-","1","9","T","1","1",":","0","0",":","0","0","Z">>, additions |-> 7, deletions |-> 7,
     changedFiles |-> 7, htmlUrl |-> <<"y">>, linkedIssue |-> <<>>] }

\* new Date().toISOString(): the readings of the clock
ClockReadings == { <<"2","0","2","6","-","0","2","-","0","1","T","0","0",":","0","0",":","0","0",".","0","0","0","Z">>, <<"2","0","2","6","-","0","2","-","0","2","T","1","3",":","4","5",":","1","0",".","2","5","0","Z">> }

NotesOwner == <<"o">>
NotesRepo == <<"r">>
NotesFrom == <<"2","0","2","6","-","0","1","-","0","1">>
NotesTo == <<"2","0","2","6","-","0","1","-","3","1">>

NotesInit ==
  /\ \E ks \in SeqsUpTo(ReleasePRKinds, MaxReleasePRs) :
       notesPrs = [k \in 1..Len(ks) |-> [number |-> k] @@ ks[k]]
  /\ generatedAt = <<>> /\ notes = <<>> /\ notesPc = "pending"
  /\ ParsersIdle /\ SummaryIdle /\ ContribIdle /\ RenderIdle /\ FmtIdle /\ PublishIdle

GenerateReleaseNotes ==
  /\ notesPc = "pending"
  /\ \E now \in ClockReadings :
       /\ generatedAt' = now
       /\ notes' = generateReleaseNotes(NotesOwner, NotesRepo, NotesFrom, NotesTo,
                                        notesPrs, now)
  /\ notesPc' = "done"
  /\ UNCHANGED <<notesPrs, notNotes>>

\* the places where s occurs in t
Occurrences(t, s) == {q \in 1..Len(t) : MatchAt(t, q, s)}

\* the elements of a finite set of numbers in increasing order
RECURSIVE Increasing(_)
Increasing(P) ==
  IF P = {} THEN <<>>
  ELSE <<CHOOSE q \in P : \A r \in P : q <= r>>
       \o Increasing(P \ {CHOOSE q \in P : \A r \in P : q <= r})

RuleDelimiter == <<Newline, Newline, "-", "-", "-", Newline, Newline>>
SubsectionMark == <<Newline, "#", "#", "#", " ">>
EntryMark == <<Newline>> \o <<"-"," ","*","*","[","P","R"," ","#">>

\* the rest of the line of t that starts at index q
LineFrom(t, q) == SubSeq(t, q, q + RunLenNot(t, q, Newline) - 1)

\* what stands at a subsection heading or at a PR entry of the document
MarkAt(t, q) ==
  IF MatchAt(t, q, SubsectionMark)
  THEN [heading |-> LineFrom(t, q + Len(SubsectionMark)), number |-> 0]
  ELSE [heading |-> <<>>,
        number |-> parseInt(SubSeq(t, q + Len(EntryMark),
                                   q + Len(EntryMark) - 1
                                   + RunLen(t, q + Len(EntryMark), Digits)))]

\* the subsection headings and the PR entries of the document, in order
Marks(t) ==
  [k \in 1..Cardinality(Occurrences(t, SubsectionMark) \cup Occurrences(t, EntryMark))
     |-> MarkAt(t, Increasing(Occurrences(t, SubsectionMark)
                              \cup Occurrences(t, EntryMark))[k])]

BucketOrder == <<"features", "bugFixes", "security", "refactoring", "other">>
BucketHeadings ==
  <<FeaturesHeading, BugFixesHeading, SecurityHeading, RefactoringHeading,
    OtherHeading>>

\* the heading of the i-th bucket when it is not empty, then its pull
\* requests in list order; then the same for the buckets after it
RECURSIVE ExpectedMarks(_, _)
ExpectedMarks(ps, i) ==
  IF i > 5 THEN <<>>
  ELSE (IF \E k \in 1..Len(ps) : categorizePR(ps[k]) = BucketOrder[i]
        THEN <<[heading |-> BucketHeadings[i], number |-> 0]>>
             \o [k \in 1..Len(SelectSeq(ps, LAMBDA q : categorizePR(q) = BucketOrder[i]))
                  |-> [heading |-> <<>>,
                       number |-> SelectSeq(ps, LAMBDA q :
                                    categorizePR(q) = BucketOrder[i])[k].number]]
        ELSE <<>>)
       \o ExpectedMarks(ps, i + 1)

\* C18: the document has exactly four sections in the order header,
\* Executive Summary, Changes by Category, Contributors, separated by
\* exactly three horizontal-rule delimiters; inside Changes by Category
\* the subsections of the non-empty buckets appear in the order features,
\* bugFixes, security, refactoring, other, empty buckets have no
\* subsection, and the PR entries of a subsection are in bucket order.
C18_FourSectionsFixedOrder ==
  notesPc = "done" =>
    /\ Cardinality(Occurrences(notes, RuleDelimiter)) = 3
    /\ Cardinality(Occurrences(notes, <<Newline, "-", "-", "-", Newline>>)) = 3
    /\ MatchAt(notes, 1, <<"#"," ","R","e","l","e","a","s","e"," ","N","o","t","e","s",Newline>>)
    /\ Cardinality(Occurrences(notes, <<Newline, "#", " ">>)) = 0
    /\ Cardinality(Occurrences(notes, <<Newline, "#", "#", " ">>)) = 3
    /\ \A q \in Occurrences(notes, RuleDelimiter) :
         MatchAt(notes, q + Len(RuleDelimiter),
                 [ k \in 1..3 |->
                   << <<"#","#"," ","E","x","e","c","u","t","i","v","e"," ","S","u","m","m","a","r","y",Newline>>,
                      <<"#","#"," ","C","h","a","n","g","e","s"," ","b","y"," ","C","a","t","e","g","o","r","y",Newline>>,
                      <<"#","#"," ","C","o","n","t","r","i","b","u","t","o","r","s",Newline>> >>[k]
                 ][Cardinality({r \in Occurrences(notes, RuleDelimiter) : r <= q})])
    /\ \A q \in Occurrences(notes, SubsectionMark) \cup Occurrences(notes, EntryMark) :
         /\ Increasing(Occurrences(notes, RuleDelimiter))[2] < q
         /\ q < Increasing(Occurrences(notes, RuleDelimiter))[3]
    /\ Marks(notes) = ExpectedMarks(notesPrs, 1)

\* other, features, features: the subsection Features with PR 2 and PR 3,
\* then the subsection Other Changes with PR 1
C18_Witness ==
  /\ notesPc = "done"
  /\ Len(notesPrs) = 3
  /\ categorizePR(notesPrs[1]) = "other"
  /\ categorizePR(notesPrs[2]) = "features"
  /\ categorizePR(notesPrs[3]) = "features"
  /\ Marks(notes) = << [heading |-> FeaturesHeading, number |-> 0],
                       [heading |-> <<>>, number |-> 2],
                       [heading |-> <<>>, number |-> 3],
                       [heading |-> OtherHeading, number |-> 0],
                       [heading |-> <<>>, number |-> 1] >>

\* the number written in t at index q
ShownNumber(t, q) == parseInt(SubSeq(t, q, q + RunLen(t, q, Digits) - 1))

\* the total the first sentence of the summary shows
ShownTotal(t) ==
  ShownNumber(t, IndexOf(t, <<"i","n","c","l","u","d","e","s"," ","*","*">>) + Len(<<"i","n","c","l","u","d","e","s"," ","*","*">>))

\* the count the focus sentence shows for the i-th category, 0 when the
\* category is not listed
ShownCount(t, i) ==
  IF Includes(t, FocusLabels[i] \o <<" ", "(">>)
  THEN ShownNumber(t, IndexOf(t, FocusLabels[i] \o <<" ", "(">>)
                      + Len(FocusLabels[i]) + 2)
  ELSE 0

\* the heading of the subsection the place q of the document lies in
SubsectionOf(t, q) ==
  LineFrom(t, Increasing({r \in Occurrences(t, SubsectionMark) : r < q})
                [Cardinality({r \in Occurrences(t, SubsectionMark) : r < q})]
              + Len(SubsectionMark))

HeadingOf(bucket) ==
  BucketHeadings[CHOOSE i \in 1..5 : BucketOrder[i] = bucket]

NoChanges == <<"_","N","o"," ","c","h","a","n","g","e","s"," ","i","n"," ","t","h","i","s"," ","p","e","r","i","o","d",".","_">>
NoContributors == <<"_","N","o"," ","c","o","n","t","r","i","b","u","t","o","r","s"," ","i","n"," ","t","h","i","s"," ","p","e","r","i","o","d",".","_">>

\* C30: every input PR is rendered as exactly one entry, in the subsection
\* of the bucket categorizePR assigns it; the "No changes in this period"
\* placeholder is emitted if and only if the input PR list is empty, which
\* is also exactly when the "No contributors in this period" placeholder
\* is emitted, and the five category counts shown in the summary sum to
\* the total PR count shown.
C30_EveryPROnceAndCountsAddUp ==
  notesPc = "done" =>
    /\ Cardinality(Occurrences(notes, EntryMark)) = Len(notesPrs)
    /\ \A k \in 1..Len(notesPrs) :
         /\ Cardinality({q \in Occurrences(notes, EntryMark) :
                           MarkAt(notes, q).number = notesPrs[k].number}) = 1
         /\ \A q \in Occurrences(notes, EntryMark) :
              MarkAt(notes, q).number = notesPrs[k].number =>
                /\ \E r \in Occurrences(notes, SubsectionMark) : r < q
                /\ SubsectionOf(notes, q) = HeadingOf(categorizePR(notesPrs[k]))
    /\ Includes(notes, NoChanges) <=> notesPrs = <<>>
    /\ Includes(notes, NoContributors) <=> notesPrs = <<>>
    /\ ShownTotal(notes) = Len(notesPrs)
    /\ ShownCount(notes, 1) + ShownCount(notes, 2) + ShownCount(notes, 3)
         + ShownCount(notes, 4) + ShownCount(notes, 5) = ShownTotal(notes)

\* bug fix, security, bug fix: two entries under Bug Fixes, one under
\* Security, no placeholder, "bug fixes (2)" and "security improvements (1)"
\* next to the total 3
C30_Witness ==
  /\ notesPc = "done"
  /\ Len(notesPrs) = 3
  /\ categorizePR(notesPrs[1]) = "bugFixes"
  /\ categorizePR(notesPrs[2]) = "security"
  /\ categorizePR(notesPrs[3]) = "bugFixes"
  /\ Cardinality(Occurrences(notes, EntryMark)) = 3
  /\ ~Includes(notes, NoChanges)
  /\ ShownTotal(notes) = 3
  /\ ShownCount(notes, 2) = 2
  /\ ShownCount(notes, 4) = 1

NextNotes == GenerateReleaseNotes
SpecNotes == NotesInit /\ [][NextNotes]_vars

(***************************************************************************)
(* post-to-notion.sh, main logic: the children of the page payload         *)
(***************************************************************************)
\* the number of converted blocks that are kept
MarkdownBlockLimit == 97

\* (defect variant: the converted blocks are cut at the API limit itself)
limitBlocksAtApiLimit(bs) ==
  IF Len(bs) > 100 THEN SubSeq(bs, 1, 100) ELSE bs

\* if [ "$BLOCK_COUNT" -gt 97 ]; then MARKDOWN_BLOCKS=$(... | jq '.[0:97]')
limitBlocks(bs) ==
  IF Len(bs) > MarkdownBlockLimit THEN SubSeq(bs, 1, MarkdownBlockLimit) ELSE bs

\* HEADER_BLOCKS: heading, repository paragraph, divider
HEADER_BLOCKS(DATE_RANGE, REPO_NAME) ==
  << TextBlock("heading_2", <<PlainRun(<<"R","e","l","e","a","s","e"," ","N","o","t","e","s",":"," ">> \o DATE_RANGE)>>),
     TextBlock("paragraph", <<PlainRun(<<"R","e","p","o","s","i","t","o","r","y",":"," ">> \o REPO_NAME)>>),
     DividerBlock >>

DateRangeSample == <<"J","a","n"," ","1"," ","-"," ","J","a","n"," ","7">>
RepoNameSample == <<"o","/","r">>

\* ---- inputs: markdown of at most MaxContentLines lines, the k-th line
\* being the number k, as a heading when k is even ----
MaxContentLines == 99

NumberedLines(len) ==
  [k \in 1..len |->
     (IF k % 2 = 0 THEN <<"#", " ">> ELSE <<>>) \o numberToString(k)]

PayloadInit ==
  /\ CONTENT \in {<< <<>> >>} \cup {NumberedLines(len) : len \in 1..MaxContentLines}
  /\ linesRead = 0 /\ converting = initialLocals
  /\ MARKDOWN_BLOCKS = <<>> /\ children = <<>> /\ payloadPc = "converting"
  /\ ParsersIdle /\ SummaryIdle /\ ContribIdle /\ RenderIdle /\ FmtIdle
  /\ NotesIdle /\ SplitIdle /\ MainIdle

\* convert_markdown_to_notion_blocks "$CONTENT": `read -r line` delivers the
\* next line of the content and the loop body runs on it
ConvertLine ==
  /\ payloadPc = "converting"
  /\ linesRead < Len(CONTENT)
  /\ linesRead' = linesRead + 1
  /\ converting' = loopBody(converting, CONTENT[linesRead + 1])
  /\ UNCHANGED <<CONTENT, MARKDOWN_BLOCKS, children, payloadPc, notPayload>>

\* MARKDOWN_BLOCKS=$(...): the loop is over and the function prints its blocks
ConvertMarkdown ==
  /\ payloadPc = "converting"
  /\ linesRead = Len(CONTENT)
  /\ MARKDOWN_BLOCKS' = converting.blocks
  /\ payloadPc' = "converted"
  /\ UNCHANGED <<CONTENT, linesRead, converting, children, notPayload>>

\* the validation of the block count
LimitBlocks ==
  /\ payloadPc = "converted"
  /\ MARKDOWN_BLOCKS' = limitBlocks(MARKDOWN_BLOCKS)
  /\ payloadPc' = "limited"
  /\ UNCHANGED <<CONTENT, linesRead, converting, children, notPayload>>

\* ALL_BLOCKS = HEADER_BLOCKS + MARKDOWN_BLOCKS; JSON_PAYLOAD.children = ALL_BLOCKS
BuildPayload ==
  /\ payloadPc = "limited"
  /\ children' = HEADER_BLOCKS(DateRangeSample, RepoNameSample) \o MARKDOWN_BLOCKS
  /\ payloadPc' = "built"
  /\ UNCHANGED <<CONTENT, linesRead, converting, MARKDOWN_BLOCKS, notPayload>>

\* the n blocks parsed from the content: none for the single empty line,
\* else the k-th is Heading 1 "k" for an even k and Paragraph "k" for an odd k
ParsedBlocks(content) ==
  IF content = << <<>> >> THEN <<>>
  ELSE [k \in 1..Len(content) |->
          TextBlock(IF k % 2 = 0 THEN "heading_1" ELSE "paragraph",
                    <<PlainRun(numberToString(k))>>)]

\* C19: the children of the payload are the 3 fixed header blocks (heading,
\* repository paragraph, divider) followed by the first min(n, 97) of the
\* n parsed blocks in their original order: never more than 100 blocks,
\* the kept blocks a prefix of the parsed sequence.
C19_ChildrenAreHeaderPlusPrefix ==
  payloadPc = "built" =>
    /\ Len(children) <= 100
    /\ Len(children) =
         3 + (IF Len(ParsedBlocks(CONTENT)) < 97
              THEN Len(ParsedBlocks(CONTENT)) ELSE 97)
    /\ children[1].type = "heading_2"
    /\ children[2].type = "paragraph"
    /\ children[3].type = "divider"
    /\ \A k \in 1..(Len(children) - 3) :
         children[3 + k] = ParsedBlocks(CONTENT)[k]

\* 99 lines gave 99 blocks, of which the first 97 are kept
C19_Witness ==
  /\ payloadPc = "built"
  /\ Len(CONTENT) = 99
  /\ Len(children) = 100
  /\ children[100].rich_text[1].content = <<"9", "7">>

NextPayload == ConvertLine \/ ConvertMarkdown \/ LimitBlocks \/ BuildPayload
SpecPayload == PayloadInit /\ [][NextPayload]_vars

(***************************************************************************)
(* splitMessage of src/src/publishers.ts                                   *)
(* An empty string is falsy: `if (currentChunk)` and `currentChunk ? :`    *)
(* test Len(currentChunk) > 0.                                             *)
(***************************************************************************)
\* ---- long texts: the element Filler of a text stands for FillerLength
\* letters x in a row, and an emoji for its two UTF-16 code units ----
FillerLength == 1450
Filler == "FILLER"

\* String.prototype.length
length(t) ==
  Len(t)
  + (FillerLength - 1) * Cardinality({k \in 1..Len(t) : t[k] = Filler})
  + Cardinality({k \in 1..Len(t) :
                  t[k] \in {"ROCKET", "BUG", "LOCK", "BROOM", "PACKAGE"}})

\* content.split("\n")
RECURSIVE splitOnNewline(_)
splitOnNewline(t) ==
  IF \E k \in 1..Len(t) : t[k] = Newline
  THEN <<SubSeq(t, 1, RunLenNot(t, 1, Newline))>>
       \o splitOnNewline(SubSeq(t, RunLenNot(t, 1, Newline) + 2, Len(t)))
  ELSE <<t>>

\* ---- inputs: contents of at most MaxSplitTokens pieces, small limits ----
MaxSplitTokens == 5

SplitTokens == { <<"a">>, <<"b", "b">>, <<Newline>> }
SplitLimits == {2, 3, 4}

SplitInit ==
  /\ splitContent \in {Concat(ts) : ts \in SeqsUpTo(SplitTokens, MaxSplitTokens)}
  /\ maxLength \in SplitLimits
  /\ splitLines = <<>> /\ currentChunk = <<>> /\ chunks = <<>>
  /\ splitPc = "start"
  /\ ParsersIdle /\ SummaryIdle /\ ContribIdle /\ RenderIdle /\ FmtIdle
  /\ NotesIdle /\ PayloadIdle /\ MainIdle

\* if (content.length <= maxLength) { chunks.push(content); return chunks; }
SplitReturnWhole ==
  /\ splitPc = "start"
  /\ length(splitContent) <= maxLength
  /\ chunks' = <<splitContent>>
  /\ splitPc' = "done"
  /\ UNCHANGED <<splitContent, maxLength, splitLines, currentChunk, notSplit>>

\* const lines = content.split("\n"); let currentChunk = "";
SplitIntoLines ==
  /\ splitPc = "start"
  /\ length(splitContent) > maxLength
  /\ splitLines' = splitOnNewline(splitContent)
  /\ currentChunk' = <<>>
  /\ splitPc' = "loop"
  /\ UNCHANGED <<splitContent, maxLength, chunks, notSplit>>

\* one iteration of `for (const line of lines)` on the next line
SplitLine ==
  /\ splitPc = "loop"
  /\ splitLines # <<>>
  /\ IF length(currentChunk \o <<Newline>> \o Head(splitLines)) > maxLength
     THEN /\ chunks' = IF Len(currentChunk) > 0 THEN Append(chunks, currentChunk)
                       ELSE chunks
          /\ currentChunk' = Head(splitLines)
     ELSE /\ currentChunk' = IF Len(currentChunk) > 0
                             THEN currentChunk \o <<Newline>> \o Head(splitLines)
                             ELSE Head(splitLines)
          /\ chunks' = chunks
  /\ splitLines' = Tail(splitLines)
  /\ UNCHANGED <<splitContent, maxLength, splitPc, notSplit>>

\* if (currentChunk) chunks.push(currentChunk); return chunks;
SplitReturn ==
  /\ splitPc = "loop"
  /\ splitLines = <<>>
  /\ chunks' = IF Len(currentChunk) > 0 THEN Append(chunks, currentChunk) ELSE chunks
  /\ splitPc' = "done"
  /\ UNCHANGED <<splitContent, maxLength, splitLines, currentChunk, notSplit>>

\* C20: the chunks are in source order, no line of content is split across
\* two chunks, and joining the chunks with a newline gives back exactly
\* content (every line, empty lines included, is in exactly one chunk);
\* when content is not longer than maxLength the result is the single
\* chunk content.
C20_ChunksJoinBackToContent ==
  splitPc = "done" =>
    /\ join(chunks, <<Newline>>) = splitContent
    /\ Concat([k \in 1..Len(chunks) |-> splitOnNewline(chunks[k])])
         = splitOnNewline(splitContent)
    /\ Len(splitContent) <= maxLength => chunks = <<splitContent>>

\* C26: for every content and every maxLength, no returned chunk is longer
\* than maxLength.
C26_NoChunkLongerThanMax ==
  splitPc = "done" => \A k \in 1..Len(chunks) : length(chunks[k]) <= maxLength

NextSplit == SplitReturnWhole \/ SplitIntoLines \/ SplitLine \/ SplitReturn
SpecSplit == SplitInit /\ [][NextSplit]_vars

(***************************************************************************)
(* main of src/src/cli.ts                                                  *)
(* A time value is counted in seconds since 1970-01-01T00:00Z. The exit    *)
(* code is <<>> while the process runs and <<c>> once it has ended.        *)
(***************************************************************************)
\* ISO_DATE_REGEX.test(s): /^\d{4}-\d{2}-\d{2}$/
ISO_DATE_REGEX(s) ==
  /\ Len(s) = 10
  /\ \A k \in {1, 2, 3, 4, 6, 7, 9, 10} : s[k] \in Digits
  /\ s[5] = "-" /\ s[8] = "-"

\* the day number of year-month-day, a day past the end of the month running
\* into the next month
MakeDay(y, m, d) ==
  ((IF m <= 2 THEN y - 1 ELSE y) \div 400) * 146097
  + ((IF m <= 2 THEN y - 1 ELSE y) % 400) * 365
  + ((IF m <= 2 THEN y - 1 ELSE y) % 400) \div 4
  - ((IF m <= 2 THEN y - 1 ELSE y) % 400) \div 100
  + (153 * (IF m > 2 THEN m - 3 ELSE m + 9) + 2) \div 5 + (d - 1)
  - 719468

\* new Date("YYYY-MM-DD"): <<time value>>, or <<>> for an Invalid Date
newDate(s) ==
  IF /\ parseInt(SubSeq(s, 6, 7)) \in 1..12
     /\ parseInt(SubSeq(s, 9, 10)) \in 1..31
  THEN << 86400 * MakeDay(parseInt(SubSeq(s, 1, 4)), parseInt(SubSeq(s, 6, 7)),
                       parseInt(SubSeq(s, 9, 10))) >>
  ELSE <<>>

\* (defect variant: the order of the two dates is not checked)
validateOptionsNoOrder(opts) ==
  IF ~ISO_DATE_REGEX(opts.from) THEN "ValidationError"
  ELSE IF ~ISO_DATE_REGEX(opts.to) THEN "ValidationError"
  ELSE IF newDate(opts.from) = <<>> THEN "ValidationError"
  ELSE IF newDate(opts.to) = <<>> THEN "ValidationError"
  ELSE "valid"

\* validateOptions: the error it throws, or "valid"
validateOptions(opts) ==
  IF ~ISO_DATE_REGEX(opts.from) THEN "ValidationError"
  ELSE IF ~ISO_DATE_REGEX(opts.to) THEN "ValidationError"
  ELSE IF newDate(opts.from) = <<>> THEN "ValidationError"
  ELSE IF newDate(opts.to) = <<>> THEN "ValidationError"
  ELSE IF newDate(opts.from)[1] > newDate(opts.to)[1] THEN "ValidationError"
  ELSE "valid"

ExitCode ==
  [SUCCESS |-> 0, VALIDATION_ERROR |-> 1, GITHUB_API_ERROR |-> 2,
   UNEXPECTED_ERROR |-> 3]

\* (defect variant: nothing is published to Discord once Slack was handled)
afterChannelStopsAtSlack(pc) ==
  IF pc = "notion" THEN "slack" ELSE "finish"

\* the statement of main that follows the block of a channel
afterChannel(pc) ==
  IF pc = "notion" THEN "slack" ELSE IF pc = "slack" THEN "discord" ELSE "finish"

\* ---- inputs: the dates of the two options, the token, the publish flags,
\* the environment, the lists the fetch can return ----
DateSamples ==
  { <<"2","0","2","4","-","0","1","-","0","1">>, <<"2","0","2","4","-","0","2","-","3","0">>, <<"2","0","2","4","-","0","3","-","0","1">>, <<"2","0","2","4","-","1","-","0","1">>,
    <<"2","0","2","4","-","1","3","-","0","1">> }

TokenSamples == { <<>>, <<"t">> }

CliOptions ==
  [from : DateSamples, to : DateSamples, githubToken : TokenSamples,
   publishNotion : BOOLEAN, publishSlack : BOOLEAN, publishDiscord : BOOLEAN]

\* which of NOTION_API_KEY with NOTION_DATABASE_ID, SLACK_WEBHOOK_URL and
\* DISCORD_WEBHOOK_URL are set
CliEnvironments == [notion : BOOLEAN, slack : BOOLEAN, discord : BOOLEAN]

MaxCliPRs == 1

CliPRLists ==
  {[k \in 1..Len(ks) |-> [number |-> k] @@ ks[k]] :
     ks \in SeqsUpTo({x \in ReleasePRKinds : x.author = <<"b","o">>}, MaxCliPRs)}

CliInit ==
  /\ cliOpts \in CliOptions
  /\ cliEnv \in CliEnvironments
  /\ cliPc = "validate" /\ exitCode = <<>> /\ requests = <<>>
  /\ cliPrs = <<>> /\ markdown = <<>> /\ outputFile = <<>> /\ cliLog = <<>>
  /\ ParsersIdle /\ SummaryIdle /\ ContribIdle /\ RenderIdle /\ FmtIdle
  /\ NotesIdle /\ PayloadIdle /\ SplitIdle /\ FetchIdle /\ PubIdle

\* lines 114-146: validateOptions, the token check, the call of fetchMergedPRs
Validate ==
  /\ cliPc = "validate"
  /\ IF validateOptions(cliOpts) = "ValidationError"
     THEN /\ cliLog' = Append(cliLog, "Validation failed")
          /\ exitCode' = <<ExitCode.VALIDATION_ERROR>>
          /\ cliPc' = "exited"
          /\ requests' = requests
     ELSE IF cliOpts.githubToken = <<>>
     THEN /\ cliLog' = Append(cliLog, "Missing GitHub token")
          /\ exitCode' = <<ExitCode.VALIDATION_ERROR>>
          /\ cliPc' = "exited"
          /\ requests' = requests
     ELSE /\ cliLog' = Append(cliLog, "Generating release notes")
          /\ requests' = Append(requests, "fetchMergedPRs")
          /\ cliPc' = "fetching"
          /\ exitCode' = exitCode
  /\ UNCHANGED <<cliOpts, cliEnv, cliPrs, markdown, outputFile, notCli>>

\* lines 147-151: fetchMergedPRs threw
FetchRejects ==
  /\ cliPc = "fetching"
  /\ cliLog' = Append(cliLog, "GitHub API error")
  /\ exitCode' = <<ExitCode.GITHUB_API_ERROR>>
  /\ cliPc' = "exited"
  /\ UNCHANGED <<cliOpts, cliEnv, requests, cliPrs, markdown, outputFile, notCli>>

\* lines 138-159: fetchMergedPRs returned a list; generateReleaseNotes
FetchResolves ==
  /\ cliPc = "fetching"
  /\ \E ps \in CliPRLists, now \in ClockReadings :
       /\ cliPrs' = ps
       /\ markdown' = generateReleaseNotes(NotesOwner, NotesRepo, cliOpts.from,
                                           cliOpts.to, ps, now)
  /\ cliPc' = "write"
  /\ UNCHANGED <<cliOpts, cliEnv, exitCode, requests, outputFile, cliLog, notCli>>

\* lines 162-166: mkdirSync, writeFileSync
WriteFile ==
  /\ cliPc = "write"
  /\ outputFile' = <<markdown>>
  /\ cliLog' = Append(cliLog, "Release notes written to file")
  /\ cliPc' = "notion"
  /\ UNCHANGED <<cliOpts, cliEnv, exitCode, requests, cliPrs, markdown, notCli>>

\* lines 164-165 and 229-232: mkdirSync or writeFileSync threw, which leaves no
\* file or an empty one, and the handler of main() caught it
WriteThrows ==
  /\ cliPc = "write"
  /\ outputFile' \in {<<>>, << <<>> >>}
  /\ cliLog' = Append(cliLog, "Unexpected error")
  /\ exitCode' = <<ExitCode.UNEXPECTED_ERROR>>
  /\ cliPc' = "exited"
  /\ UNCHANGED <<cliOpts, cliEnv, requests, cliPrs, markdown, notCli>>

\* the block of one channel: not asked for, not configured, or called with
\* the call succeeding or throwing
Channel(pc, asked, configured, call, publishing, missing, failed) ==
  /\ cliPc = pc
  /\ IF ~asked
     THEN UNCHANGED <<requests, cliLog>>
     ELSE IF ~configured
     THEN /\ cliLog' = cliLog \o <<publishing, missing>>
          /\ requests' = requests
     ELSE /\ requests' = Append(requests, call)
          /\ \/ cliLog' = Append(cliLog, publishing)
             \/ cliLog' = cliLog \o <<publishing, failed>>
  /\ cliPc' = afterChannel(pc)
  /\ UNCHANGED <<cliOpts, cliEnv, exitCode, cliPrs, markdown, outputFile, notCli>>

\* lines 170-196
PublishNotion ==
  Channel("notion", cliOpts.publishNotion, cliEnv.notion, "post-to-notion.sh",
          "Publishing to Notion...",
          "Missing NOTION_API_KEY or NOTION_DATABASE_ID in environment.",
          "Failed to publish to Notion")

\* lines 198-210
PublishSlack ==
  Channel("slack", cliOpts.publishSlack, cliEnv.slack, "publishToSlack",
          "Publishing to Slack...", "Missing SLACK_WEBHOOK_URL in environment.",
          "Failed to publish to Slack")

\* lines 212-224
PublishDiscord ==
  Channel("discord", cliOpts.publishDiscord, cliEnv.discord, "publishToDiscord",
          "Publishing to Discord...", "Missing DISCORD_WEBHOOK_URL in environment.",
          "Failed to publish to Discord")

\* line 226 and the end of the process after main() has returned
Finish ==
  /\ cliPc = "finish"
  /\ cliLog' = Append(cliLog, "Done")
  /\ exitCode' = <<ExitCode.SUCCESS>>
  /\ cliPc' = "exited"
  /\ UNCHANGED <<cliOpts, cliEnv, requests, cliPrs, markdown, outputFile, notCli>>

Logged(msg) == \E k \in 1..Len(cliLog) : cliLog[k] = msg
Requested(call) == \E k \in 1..Len(requests) : requests[k] = call

\* the shape YYYY-MM-DD with a month and a day that exist in a calendar
IsDate(s) == ISO_DATE_REGEX(s) /\ newDate(s) # <<>>

\* what the validation has to reject
InvalidOptions(opts) ==
  \/ ~IsDate(opts.from) \/ ~IsDate(opts.to)
  \/ newDate(opts.from)[1] > newDate(opts.to)[1]
  \/ opts.githubToken = <<>>

\* C21: invalid options (a date not of the form YYYY-MM-DD, from after to,
\* no GitHub token) end the process with code 1 before any fetch is started
\* and before any file is written; a failed PR fetch ends it with code 2 and
\* no file; any other uncaught failure ends it with code 3; only a run that
\* wrote the output file ends with code 0.
C21_ExitCodes ==
  /\ (cliPc # "validate" /\ InvalidOptions(cliOpts)) =>
       exitCode = <<1>> /\ requests = <<>> /\ outputFile = <<>>
  /\ exitCode = <<1>> => InvalidOptions(cliOpts)
  /\ Logged("GitHub API error") <=> exitCode = <<2>>
  /\ exitCode = <<2>> => outputFile = <<>>
  /\ Logged("Unexpected error") <=> exitCode = <<3>>
  /\ exitCode = <<0>> =>
       /\ outputFile = <<markdown>>
       /\ Logged("Release notes written to file")
  /\ exitCode # <<>> <=> cliPc = "exited"

\* from is after to, and the run ended with code 1 without a fetch
C21_Witness ==
  /\ cliOpts.from = <<"2","0","2","4","-","0","3","-","0","1">> /\ cliOpts.to = <<"2","0","2","4","-","0","1","-","0","1">>
  /\ cliOpts.githubToken # <<>>
  /\ exitCode = <<1>> /\ requests = <<>>

\* the messages of one channel
ChannelLog(ch) ==
  SelectSeq(cliLog, LAMBDA m :
    m \in (IF ch = "notion"
           THEN {"Publishing to Notion...", "Failed to publish to Notion",
                 "Missing NOTION_API_KEY or NOTION_DATABASE_ID in environment."}
           ELSE IF ch = "slack"
           THEN {"Publishing to Slack...", "Failed to publish to Slack",
                 "Missing SLACK_WEBHOOK_URL in environment."}
           ELSE {"Publishing to Discord...", "Failed to publish to Discord",
                 "Missing DISCORD_WEBHOOK_URL in environment."}))

\* a channel that was asked for has been handled: it logged that it
\* publishes, and it was called unless its configuration is missing
Handled(ch, asked, configured, call) ==
  IF ~asked THEN ChannelLog(ch) = <<>> /\ ~Requested(call)
  ELSE /\ Len(ChannelLog(ch)) \in {1, 2}
       /\ Requested(call) <=> configured
       /\ ~configured => Len(ChannelLog(ch)) = 2

\* C22: the file is written before any publish attempt; a failure of the
\* Notion, Slack or Discord channel (missing configuration, thrown error,
\* non-OK response) is logged for that channel only, does not stop the
\* channels after it from being attempted, leaves the written file as it
\* is, and leaves the exit code 0.
C22_PublishFailuresAreLocal ==
  /\ (\E c \in {"post-to-notion.sh", "publishToSlack", "publishToDiscord"} :
        Requested(c)) => outputFile = <<markdown>>
  /\ cliPc \in {"notion", "slack", "discord", "finish"} =>
       outputFile = <<markdown>> /\ exitCode = <<>>
  /\ (cliPc = "exited" /\ Logged("Release notes written to file")) =>
       /\ exitCode = <<0>>
       /\ outputFile = <<markdown>>
       /\ Handled("notion", cliOpts.publishNotion, cliEnv.notion, "post-to-notion.sh")
       /\ Handled("slack", cliOpts.publishSlack, cliEnv.slack, "publishToSlack")
       /\ Handled("discord", cliOpts.publishDiscord, cliEnv.discord, "publishToDiscord")

\* Notion is not configured, Slack failed, Discord was still called and the
\* run ended with code 0
C22_Witness ==
  /\ exitCode = <<0>>
  /\ Logged("Missing NOTION_API_KEY or NOTION_DATABASE_ID in environment.")
  /\ Logged("Failed to publish to Slack")
  /\ Requested("publishToDiscord")
  /\ ~Logged("Failed to publish to Discord")
  /\ outputFile = <<markdown>> /\ Len(markdown) > 0

NextCli ==
  \/ Validate \/ FetchRejects \/ FetchResolves \/ WriteFile \/ WriteThrows
  \/ PublishNotion \/ PublishSlack \/ PublishDiscord \/ Finish
SpecCli == CliInit /\ [][NextCli]_vars

(***************************************************************************)
(* fetchMergedPRs, fetchPRDetail, fetchIssueDetails and inferIssueType of  *)
(* github.ts (src/unnamed/part_004), followed by the generateReleaseNotes  *)
(* call of main.  null is <<>>, a value that can be null is <<v>>.  The    *)
(* fields milestone and body of a PullRequestData, which no later stage    *)
(* reads, are left out.                                                    *)
(***************************************************************************)
PER_PAGE == 100

\* new Date("YYYY-MM-DDTHH:MM:SSZ"), the form of merged_at in the API
newDateTime(s) ==
  86400 * MakeDay(parseInt(SubSeq(s, 1, 4)), parseInt(SubSeq(s, 6, 7)),
                  parseInt(SubSeq(s, 9, 10)))
  + 3600 * parseInt(SubSeq(s, 12, 13)) + 60 * parseInt(SubSeq(s, 15, 16))
  + parseInt(SubSeq(s, 18, 19))

\* pr.labels.map((l) => typeof l === "string" ? l : l.name ?? "")
labelNames(ls) == [k \in 1..Len(ls) |-> ls[k].name]

\* lines 98-104: the include filter drops the pull request
skipByInclude(labels, includeLabels) ==
  Len(includeLabels) > 0 /\ ~matchesAny(labels, includeLabels)

\* (defect variant: only a pull request whose labels are all excluded is dropped)
skipByExcludeEvery(labels, excludeLabels) ==
  /\ Len(excludeLabels) > 0
  /\ Len(labels) > 0
  /\ \A k \in 1..Len(labels) : matchesAny(<<labels[k]>>, excludeLabels)

\* lines 106-112: the exclude filter drops the pull request
skipByExclude(labels, excludeLabels) ==
  Len(excludeLabels) > 0 /\ matchesAny(labels, excludeLabels)

\* lines 83-112: the for loop continues with the next entry
skips(p, args) ==
  IF p.merged_at = <<>> THEN TRUE
  ELSE IF newDateTime(p.merged_at) > newDate(args.to)[1] THEN TRUE
  ELSE IF newDateTime(p.merged_at) < newDate(args.from)[1] THEN TRUE
  ELSE IF skipByInclude(labelNames(p.labels), args.includeLabels) THEN TRUE
  ELSE skipByExclude(labelNames(p.labels), args.excludeLabels)

\* if (issueNumber): a number other than 0
truthy(n) == n # <<>> /\ n[1] # 0

\* inferIssueType
inferIssueType(labels) ==
  IF \E l \in Range(lowered(labels)) : Includes(l, <<"b","u","g">>) \/ Includes(l, <<"f","i","x">>)
  THEN <<"B","u","g">>
  ELSE IF \E l \in Range(lowered(labels)) :
            Includes(l, <<"f","e","a","t","u","r","e">>) \/ Includes(l, <<"e","n","h","a","n","c","e","m","e","n","t">>)
  THEN <<"F","e","a","t","u","r","e">>
  ELSE IF \E l \in Range(lowered(labels)) :
            Includes(l, <<"d","o","c","u","m","e","n","t","a","t","i","o","n">>) \/ Includes(l, <<"d","o","c","s">>)
  THEN <<"D","o","c","u","m","e","n","t","a","t","i","o","n">>
  ELSE IF \E l \in Range(lowered(labels)) : Includes(l, <<"s","e","c","u","r","i","t","y">>)
  THEN <<"S","e","c","u","r","i","t","y">>
  ELSE IF \E l \in Range(lowered(labels)) :
            Includes(l, <<"r","e","f","a","c","t","o","r">>) \/ Includes(l, <<"m","a","i","n","t","e","n","a","n","c","e">>)
            \/ Includes(l, <<"c","h","o","r","e">>)
  THEN <<"M","a","i","n","t","e","n","a","n","c","e">>
  ELSE IF \E l \in Range(lowered(labels)) : Includes(l, <<"i","m","p","r","o","v","e","m","e","n","t">>)
  THEN <<"I","m","p","r","o","v","e","m","e","n","t">>
  ELSE <<"O","t","h","e","r">>

\* (defect variant: a failed lookup gives an issue without details)
fetchIssueDetailsStub(response) ==
  IF response = <<>>
  THEN << [number |-> 0, title |-> <<>>, url |-> <<>>, labels |-> <<>>,
           type |-> <<"O","t","h","e","r">>] >>
  ELSE << [number |-> response[1].number, title |-> response[1].title,
           url |-> response[1].html_url,
           labels |-> SelectSeq(labelNames(response[1].labels), LAMBDA l : Len(l) > 0),
           type |-> inferIssueType(SelectSeq(labelNames(response[1].labels),
                                             LAMBDA l : Len(l) > 0))] >>

\* fetchIssueDetails on the response of issues.get (<<>>: the request threw)
fetchIssueDetails(response) ==
  IF response = <<>> THEN <<>>
  ELSE << [number |-> response[1].number, title |-> response[1].title,
           url |-> response[1].html_url,
           labels |-> SelectSeq(labelNames(response[1].labels), LAMBDA l : Len(l) > 0),
           type |-> inferIssueType(SelectSeq(labelNames(response[1].labels),
                                             LAMBDA l : Len(l) > 0))] >>

\* fetchPRDetail on the response of pulls.get
fetchPRDetail(data) ==
  [additions |-> data.additions, deletions |-> data.deletions,
   changedFiles |-> data.changed_files]

\* lines 124-137: the object pushed
PullRequestData(p, d, linkedIssue) ==
  [number |-> p.number, title |-> p.title,
   author |-> IF p.user = <<>> THEN <<"u","n","k","n","o","w","n">> ELSE p.user[1].login,
   labels |-> labelNames(p.labels), mergedAt |-> p.merged_at,
   additions |-> d.additions, deletions |-> d.deletions,
   changedFiles |-> d.changedFiles, htmlUrl |-> p.html_url,
   linkedIssue |-> linkedIssue]

\* (defect variant: the new entry is put in front)
unshift(arr, x) == <<x>> \o arr

\* merged.push(x)
push(arr, x) == Append(arr, x)

\* (defect variant: the loop ends only at an empty page)
lastPageIfEmpty(n) == n = 0

\* line 146: the page was the last one
lastPage(n) == n < PER_PAGE

\* ---- the GitHub API: pulls.list with per_page and page, pulls.get,
\* issues.get ----
pageOf(all, k) ==
  SubSeq(all, (k - 1) * PER_PAGE + 1,
         IF k * PER_PAGE < Len(all) THEN k * PER_PAGE ELSE Len(all))

DetailData(number) ==
  [additions |-> 10 * number, deletions |-> number, changed_files |-> 1]

IssueData(number) ==
  [number |-> number, title |-> <<"c","r","a","s","h">>, html_url |-> <<"i">>,
   labels |-> << [name |-> <<"B","u","g","f","i","x">>], [name |-> <<>>] >>]

\* ---- inputs: listings of at most MaxListedPRs entries of these kinds, and
\* listings of up to MaxFullPages full pages; the entry at position k has
\* the number k ----
MaxListedPRs == 2
MaxFullPages == 2

ListItem(title, merged_at, labels, user) ==
  [title |-> title, merged_at |-> merged_at, labels |-> labels, user |-> user,
   html_url |-> <<"u">>]

LabelA == [name |-> <<"a">>]
LabelB == [name |-> <<"b">>]
SomeUser == << [login |-> <<"a","l">>] >>

ListItemKinds ==
  { ListItem(<<"x">>, <<>>, <<LabelA>>, SomeUser),
    ListItem(<<"x">>, <<"2","0","2","5","-","1","2","-","3","1","T","2","3",":","5","9",":","5","9","Z">>, <<LabelA>>, SomeUser),
    ListItem(<<"x">>, <<"2","0","2","6","-","0","1","-","0","1","T","0","0",":","0","0",":","0","0","Z">>, <<>>, <<>>),
    ListItem(<<"#","7"," ","x">>, <<"2","0","2","6","-","0","1","-","1","0","T","1","2",":","0","0",":","0","0","Z">>, <<LabelA>>, SomeUser),
    ListItem(<<"#","0"," ","x">>, <<"2","0","2","6","-","0","1","-","1","0","T","1","2",":","0","0",":","0","1","Z">>, <<LabelA, LabelB>>, SomeUser),
    ListItem(<<"f","i","x","(","8",")",":"," ","x">>, <<"2","0","2","6","-","0","1","-","3","1","T","0","0",":","0","0",":","0","0","Z">>, <<LabelB>>, SomeUser),
    ListItem(<<"x">>, <<"2","0","2","6","-","0","1","-","3","1","T","0","0",":","0","0",":","0","1","Z">>, <<LabelA>>, SomeUser) }

\* the k-th entry of a long listing: inside the date range at the start and
\* in the middle of every page
PagedItem(k) ==
  IF k % 50 = 1
  THEN ListItem((IF k % 100 = 1 THEN <<"#","7"," ">> ELSE <<>>) \o <<"p","r">>,
                <<"2","0","2","6","-","0","1","-","1","0","T","1","2",":","0","0",":","0","0","Z">>, <<LabelA>>, SomeUser)
  ELSE ListItem(<<"p","r">>, <<"2","0","2","5","-","0","6","-","0","1","T","0","0",":","0","0",":","0","0","Z">>, <<>>, SomeUser)

Numbered(items) == [k \in 1..Len(items) |-> [number |-> k] @@ items[k]]

ShortListings == {Numbered(ks) : ks \in SeqsUpTo(ListItemKinds, MaxListedPRs)}

LongListings ==
  {Numbered([k \in 1..(f * PER_PAGE + r) |-> PagedItem(k)]) :
     f \in 1..MaxFullPages, r \in {0, 1}}

FetchArguments ==
  [from : {<<"2","0","2","6","-","0","1","-","0","1">>}, to : {<<"2","0","2","6","-","0","1","-","3","1">>},
   includeLabels : {<<>>, <<<<"a">>>>}, excludeLabels : {<<>>, <<<<"b">>, <<"c">>>>}]

FetchInit ==
  /\ \/ listing \in ShortListings /\ fetchArgs \in FetchArguments
     \/ /\ listing \in LongListings
        /\ fetchArgs \in {a \in FetchArguments : a.includeLabels = <<>>}
  /\ page = 1 /\ hasMore = TRUE /\ pulls = <<>> /\ pullIdx = 0
  /\ detail = <<>> /\ merged = <<>> /\ calls = <<>> /\ visited = <<>>
  /\ fetchNotes = <<>> /\ fetchPc = "list"
  /\ ParsersIdle /\ SummaryIdle /\ ContribIdle /\ RenderIdle /\ FmtIdle
  /\ NotesIdle /\ PayloadIdle /\ SplitIdle /\ CliIdle /\ PubIdle

Call(api, arg, ok) == [api |-> api, arg |-> arg, ok |-> ok]

\* lines 64-81: pulls.list answered with the page
ListPage ==
  /\ fetchPc = "list"
  /\ hasMore
  /\ calls' = Append(calls, Call("pulls.list", page, TRUE))
  /\ pulls' = pageOf(listing, page)
  /\ pullIdx' = 1
  /\ IF Len(pageOf(listing, page)) = 0
     THEN hasMore' = FALSE /\ fetchPc' = "return"
     ELSE hasMore' = hasMore /\ fetchPc' = "for"
  /\ UNCHANGED <<listing, fetchArgs, page, detail, merged, visited, fetchNotes,
                 notFetch>>

\* line 67: pulls.list threw, and so does fetchMergedPRs
ListThrows ==
  /\ fetchPc = "list"
  /\ hasMore
  /\ calls' = Append(calls, Call("pulls.list", page, FALSE))
  /\ fetchPc' = "threw"
  /\ UNCHANGED <<listing, fetchArgs, page, hasMore, pulls, pullIdx, detail, merged,
                 visited, fetchNotes, notFetch>>

\* lines 82-112: the entry is filtered out
SkipPR ==
  /\ fetchPc = "for"
  /\ pullIdx <= Len(pulls)
  /\ skips(pulls[pullIdx], fetchArgs)
  /\ visited' = Append(visited, pulls[pullIdx].number)
  /\ pullIdx' = pullIdx + 1
  /\ UNCHANGED <<listing, fetchArgs, page, hasMore, pulls, detail, merged, calls,
                 fetchNotes, fetchPc, notFetch>>

\* lines 82-137: the entry passed the filters and pulls.get answered; without
\* an issue number the pull request is pushed
FetchPRDetail ==
  /\ fetchPc = "for"
  /\ pullIdx <= Len(pulls)
  /\ ~skips(pulls[pullIdx], fetchArgs)
  /\ visited' = Append(visited, pulls[pullIdx].number)
  /\ calls' = Append(calls, Call("pulls.get", pulls[pullIdx].number, TRUE))
  /\ IF truthy(extractIssueNumber(pulls[pullIdx].title))
     THEN /\ detail' = <<fetchPRDetail(DetailData(pulls[pullIdx].number))>>
          /\ fetchPc' = "issue"
          /\ UNCHANGED <<merged, pullIdx>>
     ELSE /\ merged' = push(merged,
                 PullRequestData(pulls[pullIdx],
                                 fetchPRDetail(DetailData(pulls[pullIdx].number)), <<>>))
          /\ pullIdx' = pullIdx + 1
          /\ UNCHANGED <<detail, fetchPc>>
  /\ UNCHANGED <<listing, fetchArgs, page, hasMore, pulls, fetchNotes, notFetch>>

\* line 115: pulls.get threw, and so does fetchMergedPRs
DetailThrows ==
  /\ fetchPc = "for"
  /\ pullIdx <= Len(pulls)
  /\ ~skips(pulls[pullIdx], fetchArgs)
  /\ visited' = Append(visited, pulls[pullIdx].number)
  /\ calls' = Append(calls, Call("pulls.get", pulls[pullIdx].number, FALSE))
  /\ fetchPc' = "threw"
  /\ UNCHANGED <<listing, fetchArgs, page, hasMore, pulls, pullIdx, detail, merged,
                 fetchNotes, notFetch>>

\* lines 120-137: issues.get answered or threw; the pull request is pushed
FetchIssueDetails ==
  /\ fetchPc = "issue"
  /\ \E response \in {<<>>, <<IssueData(extractIssueNumber(pulls[pullIdx].title)[1])>>} :
       /\ calls' = Append(calls, Call("issues.get",
                                      extractIssueNumber(pulls[pullIdx].title)[1],
                                      response # <<>>))
       /\ merged' = push(merged, PullRequestData(pulls[pullIdx], detail[1],
                                                 fetchIssueDetails(response)))
  /\ detail' = <<>>
  /\ pullIdx' = pullIdx + 1
  /\ fetchPc' = "for"
  /\ UNCHANGED <<listing, fetchArgs, page, hasMore, pulls, visited, fetchNotes,
                 notFetch>>

\* lines 145-151: the for loop is over
EndOfPage ==
  /\ fetchPc = "for"
  /\ pullIdx > Len(pulls)
  /\ IF lastPage(Len(pulls))
     THEN hasMore' = FALSE /\ page' = page /\ fetchPc' = "return"
     ELSE hasMore' = hasMore /\ page' = page + 1 /\ fetchPc' = "list"
  /\ UNCHANGED <<listing, fetchArgs, pulls, pullIdx, detail, merged, calls, visited,
                 fetchNotes, notFetch>>

\* line 154 and cli.ts 153-159: the list is returned to main, which
\* generates the document
ReturnMerged ==
  /\ fetchPc = "return"
  /\ \E now \in ClockReadings :
       fetchNotes' = generateReleaseNotes(NotesOwner, NotesRepo, fetchArgs.from,
                                          fetchArgs.to, merged, now)
  /\ fetchPc' = "generated"
  /\ UNCHANGED <<listing, fetchArgs, page, hasMore, pulls, pullIdx, detail, merged,
                 calls, visited, notFetch>>

\* the issue lookups that failed (the request threw: no such issue, or any
\* other error), as positions in the list of calls
FailedLookups ==
  {k \in 1..Len(calls) : calls[k].api = "issues.get" /\ ~calls[k].ok}

\* the entry of pull request n in the document t: from its first line to the
\* empty line or the end of the section after it
EntryOf(t, n) ==
  LET head == <<Newline>> \o <<"-"," ","*","*","[","P","R"," ","#">> \o numberToString(n) \o <<"]","(">>
      q == CHOOSE q \in 1..Len(t) : MatchAt(t, q, head)
      e == CHOOSE e \in (q + 1)..(Len(t) + 1) :
             /\ e = Len(t) + 1 \/ MatchAt(t, e, <<Newline, Newline>>)
             /\ \A f \in (q + 1)..(e - 1) : ~MatchAt(t, f, <<Newline, Newline>>)
  IN  SubSeq(t, q + 1, e - 1)

NoLinkedIssueLine == <<Newline>> \o <<" "," ","-"," ","I","s","s","u","e",":"," ","_","N","o"," ","l","i","n","k","e","d"," ","i","s","s","u","e","_">> \o <<Newline>>

\* C23: when the issue lookup of a pull request fails or the issue does not
\* exist, the pull request is still added to the result with linkedIssue =
\* none, the fetch goes on with the entries after it, no error leaves
\* fetchMergedPRs, and generateReleaseNotes renders the pull request with
\* the 'No linked issue' marker.
C23_FailedLookupIsNoIssue ==
  /\ \A k \in FailedLookups :
       /\ k > 1 /\ calls[k - 1].api = "pulls.get" /\ calls[k - 1].ok
       /\ \E j \in 1..Len(merged) :
            /\ merged[j].number = calls[k - 1].arg
            /\ merged[j].linkedIssue = <<>>
            /\ fetchPc = "generated" =>
                 Includes(EntryOf(fetchNotes, merged[j].number), NoLinkedIssueLine)
       /\ k = Len(calls) => fetchPc \in {"for", "return", "generated"}
       /\ fetchPc \in {"return", "generated"} =>
            \A m \in (calls[k - 1].arg + 1)..Len(listing) :
              \E v \in 1..Len(visited) : visited[v] = listing[m].number
  /\ fetchPc = "threw" => calls[Len(calls)].api # "issues.get"

\* the lookup of issue 7 failed for the first pull request, the second one
\* was fetched after it, and the document has both
C23_Witness ==
  /\ fetchPc = "generated"
  /\ Len(merged) = 2
  /\ Len(calls) >= 4
  /\ calls[3] = Call("issues.get", 7, FALSE)
  /\ merged[1].linkedIssue = <<>>
  /\ calls[4] = Call("pulls.get", 2, TRUE)
  /\ Includes(EntryOf(fetchNotes, 1), NoLinkedIssueLine)

\* merged[j] is the entry of the listing with its number, and the entries of
\* merged are in the order of the listing, none twice
InListingOrder ==
  /\ \A j \in 1..Len(merged) :
       /\ merged[j].number \in 1..Len(listing)
       /\ listing[merged[j].number].number = merged[j].number
       /\ listing[merged[j].number].title = merged[j].title
  /\ \A j \in 1..Len(merged) : \A k \in (j + 1)..Len(merged) :
       merged[j].number < merged[k].number

\* the call of pulls.get for merged[j], as a position in the list of calls
DetailCallOf(j) ==
  CHOOSE c \in 0..Len(calls) :
    \/ c > 0 /\ calls[c] = Call("pulls.get", merged[j].number, TRUE)
    \/ c = 0 /\ \A d \in 1..Len(calls) : calls[d] # Call("pulls.get", merged[j].number, TRUE)

\* the call after the detail call of merged[j] is the lookup of issue n
LookupFollows(j, n) ==
  /\ DetailCallOf(j) < Len(calls)
  /\ calls[DetailCallOf(j) + 1].api = "issues.get"
  /\ calls[DetailCallOf(j) + 1].arg = n

\* the answered pulls.get calls are those of the entries of merged, in
\* order, and of the pull request whose issue lookup is awaited
DetailBeforePush ==
  /\ \A j \in 1..Len(merged) : DetailCallOf(j) > 0
  /\ \A j \in 1..Len(merged) : \A k \in (j + 1)..Len(merged) :
       DetailCallOf(j) < DetailCallOf(k)
  /\ fetchPc = "issue" =>
       /\ calls[Len(calls)] = Call("pulls.get", pulls[pullIdx].number, TRUE)
       /\ \A j \in 1..Len(merged) : merged[j].number # pulls[pullIdx].number

\* the document exists only once the loop of fetchMergedPRs has ended, and
\* it is made of the returned list
GeneratedAfterFetch ==
  fetchNotes # <<>> =>
    /\ fetchPc = "generated" /\ ~hasMore
    /\ visited = [k \in 1..Len(listing) |-> listing[k].number]
    /\ \E now \in ClockReadings :
         fetchNotes = generateReleaseNotes(NotesOwner, NotesRepo, fetchArgs.from,
                                           fetchArgs.to, merged, now)

\* C24 as stated: the returned list is a subsequence of the listing in the
\* order of delivery, each entry at most once; a pull request is appended
\* only after its detail fetch and, if an issue number was extracted from
\* its title, its issue lookup have completed; the document is generated
\* only after the whole list has been fetched.
C24_LookupForEveryExtractedNumber ==
  /\ InListingOrder
  /\ DetailBeforePush
  /\ \A j \in 1..Len(merged) :
       extractIssueNumber(merged[j].title) # <<>> =>
         LookupFollows(j, extractIssueNumber(merged[j].title)[1])
  /\ GeneratedAfterFetch

\* C24, amended: the same, the issue lookup being made exactly for an
\* extracted number other than 0 (a title such as "#0 x" gives the number 0,
\* for which no lookup is made and linkedIssue is none).
C24_LookupForEveryNonZeroNumber ==
  /\ InListingOrder
  /\ DetailBeforePush
  /\ \A j \in 1..Len(merged) :
       IF truthy(extractIssueNumber(merged[j].title))
       THEN LookupFollows(j, extractIssueNumber(merged[j].title)[1])
       ELSE /\ merged[j].linkedIssue = <<>>
            /\ DetailCallOf(j) < Len(calls) =>
                 calls[DetailCallOf(j) + 1].api # "issues.get"
  /\ GeneratedAfterFetch

\* two pull requests were returned in the order of the listing, the first
\* after its detail fetch and the lookup of issue 7, the second ("#0 x")
\* after its detail fetch alone
C24_Witness ==
  /\ fetchPc = "generated"
  /\ Len(merged) = 2
  /\ merged[1].title = <<"#","7"," ","x">> /\ merged[1].linkedIssue # <<>>
  /\ merged[2].title = <<"#","0"," ","x">>
  /\ calls = << Call("pulls.list", 1, TRUE), Call("pulls.get", 1, TRUE),
                Call("issues.get", 7, TRUE), Call("pulls.get", 2, TRUE) >>

\* a is before b, for two UTC timestamps written YYYY-MM-DDTHH:MM:SSZ
Before(a, b) ==
  \E k \in 1..Len(a) :
    /\ \A j \in 1..(k - 1) : a[j] = b[j]
    /\ a[k] \in Digits /\ b[k] \in Digits
    /\ DigitValue(a[k]) < DigitValue(b[k])

\* the instant a date argument is parsed to: the start of that day in UTC
StartOfDay(date) == date \o <<"T","0","0",":","0","0",":","0","0","Z">>

HasLabelOf(p, names) ==
  \E k \in 1..Len(p.labels) : \E n \in 1..Len(names) : p.labels[k].name = names[n]

\* merged, inside the range, with an include label if any is asked for and
\* without any exclude label
Qualifies(p, args) ==
  /\ p.merged_at # <<>>
  /\ ~Before(p.merged_at, StartOfDay(args.from))
  /\ ~Before(StartOfDay(args.to), p.merged_at)
  /\ args.includeLabels # <<>> => HasLabelOf(p, args.includeLabels)
  /\ args.excludeLabels # <<>> => ~HasLabelOf(p, args.excludeLabels)

\* C25: fetchMergedPRs returns a listed pull request if and only if it is
\* merged, its merge instant t satisfies from <= t <= to (the instants the
\* two date arguments are parsed to), it has a label of includeLabels when
\* that list is not empty and no label of excludeLabels when that list is
\* not empty; a pull request with both an include and an exclude label is
\* excluded; no detail or issue request is made for a pull request that is
\* filtered out.
C25_ReturnsExactlyTheQualifying ==
  /\ \A j \in 1..Len(merged) : Qualifies(listing[merged[j].number], fetchArgs)
  /\ fetchPc \in {"return", "generated"} =>
       [j \in 1..Len(merged) |-> merged[j].number]
         = [j \in 1..Len(SelectSeq(listing, LAMBDA p : Qualifies(p, fetchArgs))) |->
              SelectSeq(listing, LAMBDA p : Qualifies(p, fetchArgs))[j].number]
  /\ \A c \in 1..Len(calls) :
       /\ calls[c].api = "pulls.get" => Qualifies(listing[calls[c].arg], fetchArgs)
       /\ calls[c].api = "issues.get" =>
            /\ c > 1 /\ calls[c - 1].api = "pulls.get"
            /\ extractIssueNumber(listing[calls[c - 1].arg].title) = <<calls[c].arg>>

\* the first pull request has the include label a and the exclude label b
\* and is left out without any request; the second has the include label
\* alone and is returned
C25_Witness ==
  /\ fetchPc = "generated"
  /\ fetchArgs.includeLabels # <<>> /\ fetchArgs.excludeLabels # <<>>
  /\ Len(listing) = 2
  /\ listing[1].labels = <<LabelA, LabelB>>
  /\ listing[1].merged_at = <<"2","0","2","6","-","0","1","-","1","0","T","1","2",":","0","0",":","0","1","Z">>
  /\ listing[2].labels = <<LabelA>>
  /\ Len(merged) = 1 /\ merged[1].number = 2
  /\ calls = << Call("pulls.list", 1, TRUE), Call("pulls.get", 2, TRUE),
                Call("issues.get", 7, TRUE) >>

\* the page numbers of the pulls.list requests, in the order they were made
PagesRequested ==
  [k \in 1..Len(SelectSeq(calls, LAMBDA c : c.api = "pulls.list")) |->
     SelectSeq(calls, LAMBDA c : c.api = "pulls.list")[k].arg]

\* pages are requested in the order 1, 2, 3, ..., page k + 1 only after a
\* page k of exactly 100 entries; the entries are taken in the order of the
\* pages; once the loop has ended, the last page requested was empty or
\* short and every entry of every requested page has been taken
PagingInOrder ==
  /\ \A k \in 1..Len(PagesRequested) : PagesRequested[k] = k
  /\ \A k \in 2..Len(PagesRequested) : Len(pageOf(listing, k - 1)) = 100
  /\ \A v \in 1..Len(visited) :
       /\ v <= Len(listing) /\ visited[v] = listing[v].number
       /\ v <= 100 * Len(PagesRequested)
  /\ fetchPc \in {"return", "generated"} =>
       /\ Len(PagesRequested) >= 1
       /\ Len(pageOf(listing, Len(PagesRequested))) < 100
       /\ Len(visited) = Len(listing)

NextFetch ==
  \/ ListPage \/ ListThrows \/ SkipPR \/ FetchPRDetail \/ DetailThrows
  \/ FetchIssueDetails \/ EndOfPage \/ ReturnMerged
SpecFetch == FetchInit /\ [][NextFetch]_vars

\* the steps of fetchMergedPRs: every awaited request is answered or fails,
\* and the code between two requests runs
FetchStep ==
  \/ ListPage \/ ListThrows \/ SkipPR \/ FetchPRDetail \/ DetailThrows
  \/ FetchIssueDetails \/ EndOfPage
SpecFetchLive == SpecFetch /\ WF_vars(FetchStep)

(***************************************************************************)
(* publishToSlack and publishToDiscord of src/src/publishers.ts            *)
(* Both call splitMessage: the call is the steps SplitReturnWhole,         *)
(* SplitIntoLines, SplitLine and SplitReturn on the arguments the caller   *)
(* passes. wire holds, in order, every request given to fetch and how the  *)
(* await on it ended. The 500 ms pause between two Discord messages        *)
(* changes no state.                                                       *)
(***************************************************************************)
\* the smallest position of a set of positions, 0 for the empty set
firstOf(S) == IF S = {} THEN 0 ELSE CHOOSE p \in S : \A q \in S : p <= q

\* \s of a JavaScript regular expression, on the characters of the inputs
JsSpace == WhiteSpace \cup {Newline}

\* ^ under the m flag
lineStart(t, p) == p = 1 \/ At(t, p - 1) = Newline

\* ---- .replace(/\*\*(.*?)\*\*/g, "*$1*") ----
\* the closing ** of a ** at p: the nearest one on the same line
boldEnd(t, p) ==
  firstOf({q \in (p + 2)..(Len(t) - 1) :
             /\ MatchAt(t, q, <<"*", "*">>)
             /\ \A k \in (p + 2)..(q - 1) : t[k] # Newline})

boldStart(t, from) ==
  firstOf({p \in from..Len(t) : MatchAt(t, p, <<"*", "*">>) /\ boldEnd(t, p) # 0})

RECURSIVE replaceBold(_, _)
replaceBold(t, from) ==
  IF boldStart(t, from) = 0 THEN SubSeq(t, from, Len(t))
  ELSE SubSeq(t, from, boldStart(t, from) - 1) \o <<"*">>
       \o SubSeq(t, boldStart(t, from) + 2, boldEnd(t, boldStart(t, from)) - 1)
       \o <<"*">> \o replaceBold(t, boldEnd(t, boldStart(t, from)) + 2)

\* ---- .replace(/\[([^\]]+)\]\(([^\)]+)\)/g, "<$2|$1>") ----
\* the lengths of $1 and $2 of a match that starts at p, and the place of
\* its closing parenthesis
linkText(t, p) == RunLenNot(t, p + 1, "]")
linkUrl(t, p) == RunLenNot(t, p + linkText(t, p) + 3, ")")
linkEnd(t, p) == p + linkText(t, p) + linkUrl(t, p) + 3

linkMatch(t, p) ==
  /\ At(t, p) = "["
  /\ linkText(t, p) >= 1
  /\ At(t, p + linkText(t, p) + 1) = "]"
  /\ At(t, p + linkText(t, p) + 2) = "("
  /\ linkUrl(t, p) >= 1
  /\ At(t, linkEnd(t, p)) = ")"

linkStart(t, from) == firstOf({p \in from..Len(t) : linkMatch(t, p)})

RECURSIVE replaceLinks(_, _)
replaceLinks(t, from) ==
  IF linkStart(t, from) = 0 THEN SubSeq(t, from, Len(t))
  ELSE SubSeq(t, from, linkStart(t, from) - 1) \o <<"<">>
       \o SubSeq(t, linkStart(t, from) + linkText(t, linkStart(t, from)) + 3,
                  linkEnd(t, linkStart(t, from)) - 1)
       \o <<"|">>
       \o SubSeq(t, linkStart(t, from) + 1,
                  linkStart(t, from) + linkText(t, linkStart(t, from)))
       \o <<">">> \o replaceLinks(t, linkEnd(t, linkStart(t, from)) + 1)

\* ---- .replace(/^#+\s+(.*)$/gm, "*$1*") ----
\* the position of $1 of a match that starts at p, and the position after it
headerText(t, p) ==
  p + RunLen(t, p, {"#"}) + RunLen(t, p + RunLen(t, p, {"#"}), JsSpace)
headerEnd(t, p) == headerText(t, p) + RunLenNot(t, headerText(t, p), Newline)

headerMatch(t, p) ==
  /\ lineStart(t, p)
  /\ RunLen(t, p, {"#"}) >= 1
  /\ RunLen(t, p + RunLen(t, p, {"#"}), JsSpace) >= 1

headerStart(t, from) == firstOf({p \in from..Len(t) : headerMatch(t, p)})

RECURSIVE replaceHeaders(_, _)
replaceHeaders(t, from) ==
  IF headerStart(t, from) = 0 THEN SubSeq(t, from, Len(t))
  ELSE SubSeq(t, from, headerStart(t, from) - 1) \o <<"*">>
       \o SubSeq(t, headerText(t, headerStart(t, from)),
                  headerEnd(t, headerStart(t, from)) - 1)
       \o <<"*">> \o replaceHeaders(t, headerEnd(t, headerStart(t, from)))

\* ---- .replace(/^\s*-\s/gm, <bullet>) ----
\* the replacement, character by character as the source file holds it
Bullet == <<"A_CIRCUMFLEX", "EURO", "CENT", " ">>

listMatch(t, p) ==
  /\ lineStart(t, p)
  /\ At(t, p + RunLen(t, p, JsSpace)) = "-"
  /\ At(t, p + RunLen(t, p, JsSpace) + 1) \in JsSpace

listStart(t, from) == firstOf({p \in from..Len(t) : listMatch(t, p)})

RECURSIVE replaceListItems(_, _)
replaceListItems(t, from) ==
  IF listStart(t, from) = 0 THEN SubSeq(t, from, Len(t))
  ELSE SubSeq(t, from, listStart(t, from) - 1) \o Bullet
       \o replaceListItems(t, listStart(t, from)
                               + RunLen(t, listStart(t, from), JsSpace) + 2)

\* const mrkdwn = content.replace(...).replace(...).replace(...).replace(...)
toMrkdwn(content) ==
  replaceListItems(replaceHeaders(replaceLinks(replaceBold(content, 1), 1), 1), 1)

SlackChunkLength == 2900
SlackBlockLimit == 50

TruncationNotice == <<"_",".",".",".","t","r","u","n","c","a","t","e","d"," ","(","m","e","s","s","a","g","e"," ","t","o","o"," ","l","o","n","g"," ","f","o","r"," ","S","l","a","c","k",")","_">>

section(chunk) == [type |-> "section", text |-> [type |-> "mrkdwn", text |-> chunk]]

\* chunks.slice(0, 50)
sliceBlocks(cs) == SubSeq(cs, 1, IF Len(cs) < SlackBlockLimit THEN Len(cs) ELSE SlackBlockLimit)

\* const blocks = chunks.slice(0, 50).map(...); if (chunks.length > 50) blocks.push(...)
slackBlocks(cs) ==
  [k \in 1..Len(sliceBlocks(cs)) |-> section(sliceBlocks(cs)[k])]
    \o (IF Len(cs) > SlackBlockLimit THEN <<section(TruncationNotice)>> ELSE <<>>)

slackPayload(cs) == [text |-> "New Release Notes", blocks |-> slackBlocks(cs)]

\* an entry of wire: a request given to fetch, the response received, or
\* the rejection of fetch
Event(kind, body, ok) == [kind |-> kind, body |-> body, ok |-> ok]
Request(body) == Event("request", body, TRUE)
Response(ok) == Event("response", <<>>, ok)
NetworkError == Event("error", <<>>, FALSE)

\* ---- inputs: contents of at most MaxSlackTokens markdown pieces, and
\* contents of at most MaxSlackLines lines of FillerLength letters, two of
\* which do not fit in one chunk ----
MaxSlackTokens == 4
MaxSlackLines == 52

SlackTokens ==
  { <<"*", "*">>, <<"a">>, <<"[", "a", "]", "(", "u", ")">>, <<"#">>, <<"-">>,
    <<" ">>, <<Newline>> }

FillerLines(n) == [k \in 1..(2 * n - 1) |-> IF k % 2 = 1 THEN Filler ELSE Newline]

SlackContents ==
  {Concat(ts) : ts \in SeqsUpTo(SlackTokens, MaxSlackTokens)}
    \cup {FillerLines(n) : n \in 1..MaxSlackLines}

WebhookUrls == { <<>>, <<"h">> }

SlackInit ==
  /\ pubContent \in SlackContents
  /\ webhookUrl \in WebhookUrls
  /\ mrkdwn = <<>> /\ chunkIdx = 0 /\ wire = <<>> /\ pubLog = <<>>
  /\ pubPc = "start"
  /\ ParsersIdle /\ SummaryIdle /\ ContribIdle /\ RenderIdle /\ FmtIdle
  /\ NotesIdle /\ PayloadIdle /\ SplitIdle /\ CliIdle /\ FetchIdle

\* if (!webhookUrl) { logger.warn(...); return; }
SlackSkip ==
  /\ pubPc = "start"
  /\ webhookUrl = <<>>
  /\ pubLog' = Append(pubLog, "warn: Slack webhook URL not provided. Skipping.")
  /\ pubPc' = "returned"
  /\ UNCHANGED <<pubContent, webhookUrl, mrkdwn, chunkIdx, wire, notPub>>

\* const mrkdwn = ...; the call splitMessage(mrkdwn, 2900) starts
SlackConvert ==
  /\ pubPc = "start"
  /\ webhookUrl # <<>>
  /\ mrkdwn' = toMrkdwn(pubContent)
  /\ splitContent' = mrkdwn'
  /\ maxLength' = SlackChunkLength
  /\ splitLines' = <<>> /\ currentChunk' = <<>> /\ chunks' = <<>>
  /\ splitPc' = "start"
  /\ pubPc' = "splitting"
  /\ UNCHANGED <<pubContent, webhookUrl, chunkIdx, wire, pubLog, notPubSplit>>

\* the blocks and the payload are built from the returned chunks and given
\* to fetch
SlackPost ==
  /\ pubPc = "splitting"
  /\ splitPc = "done"
  /\ wire' = Append(wire, Request(slackPayload(chunks)))
  /\ pubPc' = "awaiting"
  /\ UNCHANGED <<pubContent, webhookUrl, mrkdwn, chunkIdx, pubLog, notPub>>

\* the await ends: response.ok, a response that is not ok (an Error is
\* thrown), or fetch rejects; the catch block logs and rethrows
SlackResponse ==
  /\ pubPc = "awaiting"
  /\ \/ /\ wire' = Append(wire, Response(TRUE))
        /\ pubLog' = Append(pubLog, "info: Successfully published to Slack.")
        /\ pubPc' = "returned"
     \/ /\ wire' = Append(wire, Response(FALSE))
        /\ pubLog' = Append(pubLog, "error: Failed to publish to Slack.")
        /\ pubPc' = "threw"
     \/ /\ wire' = Append(wire, NetworkError)
        /\ pubLog' = Append(pubLog, "error: Failed to publish to Slack.")
        /\ pubPc' = "threw"
  /\ UNCHANGED <<pubContent, webhookUrl, mrkdwn, chunkIdx, notPub>>

\* C28: for every content, the payload posted to the webhook contains at
\* most 50 blocks, whatever the number of chunks produced by splitMessage;
\* when more than 50 chunks exist the payload holds the first chunks in
\* order and ends with the truncation notice.
C28_AtMostFiftyBlocks ==
  \A k \in 1..Len(wire) :
    wire[k].kind = "request" =>
      /\ Len(wire[k].body.blocks) <= SlackBlockLimit
      /\ Len(chunks) > SlackBlockLimit =>
           /\ wire[k].body.blocks[Len(wire[k].body.blocks)] = section(TruncationNotice)
           /\ \A j \in 1..(Len(wire[k].body.blocks) - 1) :
                wire[k].body.blocks[j] = section(chunks[j])

NextSlack ==
  \/ SlackSkip \/ SlackConvert
  \/ SplitReturnWhole \/ SplitIntoLines \/ SplitLine \/ SplitReturn
  \/ SlackPost \/ SlackResponse
SpecSlack == SlackInit /\ [][NextSlack]_vars

(***************************************************************************)
(* publishToDiscord                                                        *)
(***************************************************************************)
MAX_LENGTH == 1900

\* the pair [index, chunk] that chunks.entries() yields after `done` pairs,
\* taken from the end instead
entryFromEnd(cs, done) == [index |-> done, chunk |-> cs[Len(cs) - done]]

\* the pair [index, chunk] that chunks.entries() yields after `done` pairs
entry(cs, done) == [index |-> done, chunk |-> cs[done + 1]]

\* ---- inputs: contents of at most MaxDiscordLines lines; a line is
\* FillerLength letters, one letter or empty ----
MaxDiscordLines == 4

DiscordLines == { <<Filler>>, <<"a">>, <<>> }

DiscordContents ==
  {join(ls, <<Newline>>) : ls \in SeqsUpTo(DiscordLines, MaxDiscordLines)}

DiscordInit ==
  /\ pubContent \in DiscordContents
  /\ webhookUrl \in WebhookUrls
  /\ mrkdwn = <<>> /\ chunkIdx = 0 /\ wire = <<>> /\ pubLog = <<>>
  /\ pubPc = "start"
  /\ ParsersIdle /\ SummaryIdle /\ ContribIdle /\ RenderIdle /\ FmtIdle
  /\ NotesIdle /\ PayloadIdle /\ SplitIdle /\ CliIdle /\ FetchIdle

\* if (!webhookUrl) { logger.warn(...); return; }
DiscordSkip ==
  /\ pubPc = "start"
  /\ webhookUrl = <<>>
  /\ pubLog' = Append(pubLog, "warn: Discord webhook URL not provided. Skipping.")
  /\ pubPc' = "returned"
  /\ UNCHANGED <<pubContent, webhookUrl, mrkdwn, chunkIdx, wire, notPub>>

\* the call splitMessage(content, MAX_LENGTH) starts; the for loop follows it
DiscordSplit ==
  /\ pubPc = "start"
  /\ webhookUrl # <<>>
  /\ splitContent' = pubContent
  /\ maxLength' = MAX_LENGTH
  /\ splitLines' = <<>> /\ currentChunk' = <<>> /\ chunks' = <<>>
  /\ splitPc' = "start"
  /\ pubPc' = "for"
  /\ UNCHANGED <<pubContent, webhookUrl, mrkdwn, chunkIdx, wire, pubLog, notPubSplit>>

\* the loop takes the next chunk and gives payload = { content: chunk } to fetch
DiscordPost ==
  /\ pubPc = "for"
  /\ splitPc = "done"
  /\ chunkIdx < Len(chunks)
  /\ wire' = Append(wire, Request([content |-> entry(chunks, chunkIdx).chunk]))
  /\ pubPc' = "awaiting"
  /\ UNCHANGED <<pubContent, webhookUrl, mrkdwn, chunkIdx, pubLog, notPub>>

\* the await ends: response.ok (the loop goes on), a response that is not
\* ok (an Error is thrown), or fetch rejects; the catch block logs and
\* rethrows
DiscordResponse ==
  /\ pubPc = "awaiting"
  /\ \/ /\ wire' = Append(wire, Response(TRUE))
        /\ chunkIdx' = chunkIdx + 1
        /\ pubLog' = pubLog
        /\ pubPc' = "for"
     \/ /\ wire' = Append(wire, Response(FALSE))
        /\ chunkIdx' = chunkIdx
        /\ pubLog' = Append(pubLog, "error: Failed to publish to Discord.")
        /\ pubPc' = "threw"
     \/ /\ wire' = Append(wire, NetworkError)
        /\ chunkIdx' = chunkIdx
        /\ pubLog' = Append(pubLog, "error: Failed to publish to Discord.")
        /\ pubPc' = "threw"
  /\ UNCHANGED <<pubContent, webhookUrl, mrkdwn, notPub>>

\* the loop is over: logger.info(`Successfully published to Discord (...)`)
DiscordDone ==
  /\ pubPc = "for"
  /\ splitPc = "done"
  /\ chunkIdx = Len(chunks)
  /\ pubLog' = Append(pubLog, "info: Successfully published to Discord.")
  /\ pubPc' = "returned"
  /\ UNCHANGED <<pubContent, webhookUrl, mrkdwn, chunkIdx, wire, notPub>>

\* the requests of wire so far, in order
RequestsOf(w) == SelectSeq(w, LAMBDA e : e.kind = "request")

\* the posts so far are the first chunks in chunk order, each request after
\* the first follows an OK response to the one before, and nothing follows
\* a failure
PostedInChunkOrder ==
  /\ Len(RequestsOf(wire)) <= Len(chunks)
  /\ \A k \in 1..Len(RequestsOf(wire)) : RequestsOf(wire)[k].body.content = chunks[k]
  /\ \A k \in 1..Len(wire) :
       /\ wire[k].kind = "request" <=> k % 2 = 1
       /\ (wire[k].kind = "request" /\ k > 1) => wire[k - 1] = Response(TRUE)
       /\ wire[k] \in {Response(FALSE), NetworkError} => k = Len(wire)

\* the function has thrown exactly when the last outcome is a failure, and
\* has returned, with a webhook URL, only after an OK response to every chunk
ThrowsAtFirstFailure ==
  /\ pubPc = "threw" <=>
       (wire # <<>> /\ wire[Len(wire)] \in {Response(FALSE), NetworkError})
  /\ (pubPc = "returned" /\ webhookUrl # <<>>) =>
       /\ Len(wire) = 2 * Len(chunks)
       /\ wire[Len(wire)] = Response(TRUE)

\* what was sent and received stays so
StaysDelivered == \A k \in 1..Len(wire) : Len(wire') >= k /\ wire'[k] = wire[k]

\* C29: publishToDiscord posts the chunks one at a time in chunk order:
\* chunk i+1 is posted only after the response to chunk i was received and
\* was OK; at the first network error or non-OK response the function
\* throws, no later chunk is posted, and the chunks already posted stay
\* delivered; with an empty webhook URL nothing is posted at all.
C29_PostsInOrderUntilFailure ==
  /\ [](PostedInChunkOrder /\ ThrowsAtFirstFailure /\ (webhookUrl = <<>> => wire = <<>>))
  /\ [][StaysDelivered]_vars

\* the second of three chunks or more was refused after the first was
\* delivered: the function has thrown and the third is never posted
C29_Witness ==
  /\ pubPc = "threw"
  /\ Len(chunks) >= 3
  /\ chunks[1] # chunks[2]
  /\ Len(wire) = 4
  /\ wire[2] = Response(TRUE)
  /\ wire[4] = Response(FALSE)

NextDiscord ==
  \/ DiscordSkip \/ DiscordSplit
  \/ SplitReturnWhole \/ SplitIntoLines \/ SplitLine \/ SplitReturn
  \/ DiscordPost \/ DiscordResponse \/ DiscordDone
SpecDiscord == DiscordInit /\ [][NextDiscord]_vars
====
